---- MODULE Spec2Model ----
(***************************************************************************)
(* Model of the hikari-beam peer-to-peer chunked file transfer engine:     *)
(* the IndexedDB bitfield store (idb), the receiver/sender hooks, the      *)
(* resume protocol, the data-channel send path with backpressure, and the  *)
(* range computations of the chunking module.                              *)
(***************************************************************************)
EXTENDS Integers, Sequences, FiniteSets, TLC

\* ------------------------------------------------------------------ bounds
MaxChunks == 3          \* largest totalChunks of the announced file (Spec)
RaceChunks == 2         \* largest totalChunks of the announced file (SpecRace)
CountSlack == 1         \* receivedCount is capped at totalChunks + CountSlack
QueueSlack == 1         \* channel capacity beyond one pass over the file
MaxSenders == 3         \* sendMessage calls in progress on one channel
TransportSlack == 4     \* the transport's hard buffer limit, in thresholds
                        \* above MAX_BUFFER_SIZE
MaxRangeChunks == 9     \* largest totalChunks of the range computations
MaxRangeSize == 3       \* largest maxRangeSize of createRequestRanges
ControlMsgSize == 128   \* bytes of the JSON text of a REQUEST or ACK message
DrainUnit == 32768      \* granularity of the modelled buffer drain, in bytes
MaxValidateSize == 4    \* largest file size of the resume validation inputs
MaxValidateChunkSize == 3  \* largest chunkSize of the resume validation inputs
MaxFileSize == 12       \* largest small file size of the chunking inputs
MaxChunkSize == 5       \* largest chunkSize argument of the chunking inputs
MaxChunksRead == 12     \* cap on the chunks read from one file
MaxHoltUpdates == 4     \* cap on Holt.state.updateCount
MaxObservation == 3     \* largest throughput value given to Holt.update
SteadySample == 1000    \* the throughput sample of a steady transfer given to Holt.update
MaxSockets == 3         \* sockets that connect to the signaling server
MaxRooms == 2           \* distinct valid room ids the clients use
MaxFileIds == 1         \* distinct file ids the clients announce
MaxRequests == 4        \* cap on the client events the server handles
MaxNeedChunks == 3      \* largest totalChunks of the files a NEED is served from
MaxStreamChunks == 2    \* largest totalChunks of a file streamed directly
MaxShares == 2          \* shareFile calls of the host in the direct path
MaxIcePeers == 2        \* peer connections that receive ICE candidates
MaxCandidates == 3      \* remote ICE candidates signalled for one connection
MaxBrowsers == 2        \* browser profiles, each with its own localStorage
MaxEvents == 2          \* cap on pause, disconnect, repeated META and stray
                        \* REQUEST events

\* --------------------------------------------------------- program constants
windowSize == 10        \* missingRanges.slice(0, 10)
DEFAULT_CHUNK_SIZE == 32768
maxResiduals == 60      \* Holt: keep last 60 residuals
DEFAULT_MAX_RANGE_SIZE == 64   \* createRequestRanges: maxRangeSize = 64

VARIABLES
  fileTotal,        \* metadata.totalChunks of the file the host shares
  record,           \* FILES_STORE entry of the file (or NoRecord)
  chunks,           \* CHUNKS_STORE: indices with a stored chunk record
  isActive,         \* receiver hook state
  progress,         \* receiver hook state (TransferProgress or NoProgress)
  downloadedFile,   \* receiver hook state: assembled chunk indices, or NoFile
  pendingMetadata,  \* receiver hook state: META waiting for acceptance
  hostOpen,         \* readyState of the data channel to the host is 'open'
  toHost,           \* messages in flight receiver -> host
  toPeer,           \* CHUNK indices in flight host -> receiver
  vrec,             \* the record read by a validateResumeSession call that
                    \* is suspended before updateBitfield (or NoRecord)
  hpc, hidx, hrec,  \* the CHUNK handler that is suspended at an await:
                    \* its position, chunk index and local copy of the record
  sentRanges,       \* history: ranges sent in a REQUEST on this connection
  events,           \* number of pause, disconnect and repeated META events
  bitSetRuns,       \* history: indices whose setBitfieldBit call has finished
  resumed,          \* history: the session was resumed after a pause
  heldAtResume,     \* history: indices held when the session was resumed
  reqAfterResume,   \* history: indices covered by REQUEST/NEED since the resume
  bufferedAmount,   \* RTCDataChannel.bufferedAmount of the sending channel
  channelState,     \* RTCDataChannel.readyState of the sending channel
  sendPath,         \* which sender drives the channel: "sendMessage" | "sendFile"
  spc, ssize,       \* per sendMessage call: position and message size
  rRecord,          \* input of the range computations: a file record
  rMaxSize,         \* input of createRequestRanges: maxRangeSize
  rMissing,         \* result of getMissingRanges (NotComputed before the call)
  rRequest,         \* result of createRequestRanges (NotComputed before the call)
  recordMeta,       \* name, size and chunkSize of record.metadata (tracked for
                    \* validateResumeSession; NoRecordMeta elsewhere)
  session,          \* the ResumeSession passed to validateResumeSession
  vResult,          \* what validateResumeSession returned ("none" before)
  vBefore,          \* history: the record when validateResumeSession started
  fileSize,         \* file.size of the File given to the chunking functions
  chunkSizeArg,     \* the chunkSize argument of generateFileMetadata
  metadata,         \* the FileMetadata generated for the file (NoFileMetadata before)
  chunkInfos,       \* the ChunkInfo of the chunks read so far, in order
  holt,             \* Holt.state
  residuals,        \* Holt.residuals
  holtUpdates,      \* history: update() calls since construction or reset()
  holtInputs,       \* history: the values given to update() since then
  rooms,            \* server: Map roomId -> room {host, peers, fileId}
  peerToRoom,       \* server: Map socketId -> roomId
  connected,        \* sockets with an open connection to the server
  departed,         \* sockets that have disconnected (ids are never reused)
  adapter,          \* socket.io room membership (socket.join / socket.leave)
  emitted,          \* events emitted by the handler that ran last
  requests,         \* number of client events the server has handled
  handshake,        \* the contents of the last BITFIELD message from the host
  needRanges,       \* handleNeedMessage: message.data.missingRanges
  needFails,        \* chunk indices for which onSendChunk throws
  needPos,          \* handleNeedMessage: position of the two loops
  needSent,         \* chunk indices onSendChunk has sent, in order
  needFailed,       \* history: a send of this NEED has failed
  sTotal,           \* direct path: totalChunks of the shared file
  sChannel,         \* direct path: readyState of the data channel
  sToPeer,          \* direct path: messages in flight from host to peer
  sToHost,          \* direct path: 'file-accepted' messages in flight to the host
  sShares,          \* direct path: shareFile calls so far
  sPending,         \* direct path: the peer's pendingMetadata is set
  sMeta,            \* direct path: the peer's fileMetadataRef is set
  sReceived,        \* direct path: the keys of the peer's receivedChunks map
  sLoops,           \* direct path: the sendFile calls, each with its loop state
  sProgress,        \* direct path: the host's transferProgress entry of the peer
  sDownloads,       \* history: the chunk indices of every assembled file
  ice,              \* per peer: the P2PConnection and its signaling handlers
  clients,          \* per socket: the page that owns it (useP2PManager)
  localStorage      \* per browser and room: the stored host status

storeVars == <<record, chunks>>
hookVars == <<isActive, progress, downloadedFile, pendingMetadata>>
chanVars == <<hostOpen, toHost, toPeer>>
handlerVars == <<hpc, hidx, hrec, vrec>>
resumeHist == <<resumed, heldAtResume, reqAfterResume>>
histVars == <<sentRanges, bitSetRuns, resumeHist>>
recvVars == <<fileTotal, events, storeVars, hookVars, chanVars, handlerVars,
              histVars>>

sendVars == <<bufferedAmount, channelState, sendPath, spc, ssize>>
rangeVars == <<rRecord, rMaxSize, rMissing, rRequest>>
validateVars == <<recordMeta, session, vResult, vBefore>>
chunkingVars == <<fileSize, chunkSizeArg, metadata, chunkInfos>>
holtVars == <<holt, residuals, holtUpdates, holtInputs>>
\* inputs and results of the functions that are checked on their own
serverVars == <<rooms, peerToRoom, connected, departed, adapter, emitted, requests>>
\* everything the added components leave alone
baseVars == <<recvVars, sendVars, rangeVars, validateVars, chunkingVars, holtVars,
              serverVars, handshake>>
needVars == <<needRanges, needFails, needPos, needSent, needFailed>>
\* the functions and components added to the model one by one
streamVars == <<sTotal, sChannel, sToPeer, sToHost, sShares, sPending, sMeta, sReceived,
                sLoops, sProgress, sDownloads>>
iceVars == <<ice>>
roleVars == <<clients, localStorage>>
extraVars == <<needVars, streamVars, iceVars, roleVars>>
pureVars == <<rangeVars, validateVars, chunkingVars, holtVars, serverVars, handshake,
              extraVars>>

vars == <<recvVars, sendVars, pureVars>>

\* ------------------------------------------------------------ bitfield (idb)
RECURSIVE Pow2(_)
Pow2(n) == IF n = 0 THEN 1 ELSE 2 * Pow2(n - 1)

\* bitfield[byteIndex]; reading past the end of a Uint8Array gives undefined,
\* and (undefined & mask) is 0
ByteAt(bitfield, byteIndex) ==
  IF byteIndex < Len(bitfield) THEN bitfield[byteIndex + 1] ELSE 0

\* (bitfield[byteIndex] & (1 << (7 - bitIndex))) !== 0
BitTest(bitfield, i) ==
  (ByteAt(bitfield, i \div 8) \div Pow2(7 - (i % 8))) % 2 = 1

\* bitfield[byteIndex] |= (1 << (7 - bitIndex))
BitOr(byte, bitIndex) ==
  IF (byte \div Pow2(7 - bitIndex)) % 2 = 1 THEN byte
  ELSE byte + Pow2(7 - bitIndex)

createBitfield(totalChunks) == [k \in 1..((totalChunks + 7) \div 8) |-> 0]

NoRecord == [exists |-> FALSE, totalChunks |-> 0, bitfield |-> <<>>,
             receivedCount |-> 0]

\* the record setBitfieldBit puts back, computed from the record it read
setBitfieldBit(rec, chunkIndex) ==
  LET byteIndex == chunkIndex \div 8
      bitIndex == chunkIndex % 8
      grown == IF byteIndex >= Len(rec.bitfield)
               THEN [k \in 1..(byteIndex + 1) |-> ByteAt(rec.bitfield, k - 1)]
               ELSE rec.bitfield
  IN [rec EXCEPT !.bitfield = [grown EXCEPT ![byteIndex + 1] =
                                 BitOr(grown[byteIndex + 1], bitIndex)],
                 !.receivedCount = rec.receivedCount + 1]

hasBitfieldBit(rec, chunkIndex) ==
  IF ~rec.exists THEN FALSE
  ELSE IF (chunkIndex \div 8) >= Len(rec.bitfield) THEN FALSE
  ELSE BitTest(rec.bitfield, chunkIndex)

\* the loop of getMissingRanges, from index i with the open run start (-1: none)
RECURSIVE MissingRangesLoop(_, _, _, _, _)
MissingRangesLoop(bitfield, totalChunks, i, start, ranges) ==
  IF i >= totalChunks
  THEN IF start # -1
       THEN Append(ranges, [start |-> start, end |-> totalChunks - 1])
       ELSE ranges
  ELSE LET hasBit == BitTest(bitfield, i)
       IN IF ~hasBit /\ start = -1
          THEN MissingRangesLoop(bitfield, totalChunks, i + 1, i, ranges)
          ELSE IF hasBit /\ start # -1
          THEN MissingRangesLoop(bitfield, totalChunks, i + 1, -1,
                                 Append(ranges, [start |-> start, end |-> i - 1]))
          ELSE MissingRangesLoop(bitfield, totalChunks, i + 1, start, ranges)

\* getMissingRanges with the closing index of a run off by one
\* (end: i instead of end: i - 1)
RECURSIVE MissingRangesLoopOffByOne(_, _, _, _, _)
MissingRangesLoopOffByOne(bitfield, totalChunks, i, start, ranges) ==
  IF i >= totalChunks
  THEN IF start # -1
       THEN Append(ranges, [start |-> start, end |-> totalChunks - 1])
       ELSE ranges
  ELSE LET hasBit == BitTest(bitfield, i)
       IN IF ~hasBit /\ start = -1
          THEN MissingRangesLoopOffByOne(bitfield, totalChunks, i + 1, i, ranges)
          ELSE IF hasBit /\ start # -1
          THEN MissingRangesLoopOffByOne(bitfield, totalChunks, i + 1, -1,
                                 Append(ranges, [start |-> start, end |-> i]))
          ELSE MissingRangesLoopOffByOne(bitfield, totalChunks, i + 1, start, ranges)

getMissingRangesOffByOne(rec) ==
  IF ~rec.exists THEN <<>>
  ELSE MissingRangesLoopOffByOne(rec.bitfield, rec.totalChunks, 0, -1, <<>>)

getMissingRanges(rec) ==
  IF ~rec.exists THEN <<>>
  ELSE MissingRangesLoop(rec.bitfield, rec.totalChunks, 0, -1, <<>>)

\* chunks.sort((a, b) => a.index - b.index) over the stored chunk records
RECURSIVE SortedIndices(_)
SortedIndices(S) ==
  IF S = {} THEN <<>>
  ELSE LET m == CHOOSE x \in S : \A y \in S : x <= y
       IN <<m>> \o SortedIndices(S \ {m})

NoFile == <<-1>>
NotComputed == <<[start |-> -1, end |-> -1]>>

\* assembleFile: null unless receivedCount has reached totalChunks
assembleFile(rec, stored) ==
  IF ~rec.exists \/ rec.receivedCount < rec.totalChunks THEN NoFile
  ELSE SortedIndices(stored)

\* ------------------------------------------------------- receiver hook state
NoProgress == [exists |-> FALSE, receivedChunks |-> 0, status |-> "none"]
NoMetadata == -1

QueueCap == fileTotal + QueueSlack
CountCap == fileTotal + CountSlack

Min(a, b) == IF a < b THEN a ELSE b
SeqRange(s) == {s[k] : k \in 1..Len(s)}
Covered(ranges) == UNION {r.start..r.end : r \in SeqRange(ranges)}
Held(rec) == {i \in 0..(rec.totalChunks - 1) : BitTest(rec.bitfield, i)}
AllRanges(n) == {r \in [start : 0..(n - 1), end : 0..(n - 1)] : r.start <= r.end}

Request(r) == [type |-> "REQUEST", ranges |-> <<r>>]
Need(rs) == [type |-> "NEED", ranges |-> rs]

\* the REQUEST messages requestMissingChunks sends for the record it reads
requestMissingChunks(rec, open) ==
  LET missingRanges == getMissingRanges(rec)
  IN IF open /\ Len(missingRanges) > 0
     THEN [k \in 1..Min(windowSize, Len(missingRanges)) |-> Request(missingRanges[k])]
     ELSE <<>>

RequestedRanges(msgs) == {m.ranges[1] : m \in SeqRange(msgs)}

\* history bookkeeping for the REQUESTs in msgs
NoteSent(msgs) ==
  /\ sentRanges' = sentRanges \cup RequestedRanges(msgs)
  /\ reqAfterResume' = IF resumed
                       THEN reqAfterResume \cup Covered([k \in 1..Len(msgs) |-> msgs[k].ranges[1]])
                       ELSE reqAfterResume

\* the receiver hook as constructed, the channel to the host open, nothing
\* in flight
RecvIdle ==
  /\ isActive = FALSE
  /\ progress = NoProgress
  /\ downloadedFile = NoFile
  /\ pendingMetadata = NoMetadata
  /\ hostOpen = TRUE
  /\ toHost = <<>>
  /\ toPeer = <<>>
  /\ hpc = "idle"
  /\ hidx = 0
  /\ hrec = NoRecord
  /\ vrec = NoRecord
  /\ sentRanges = {}
  /\ events = 0
  /\ bitSetRuns = {}
  /\ resumed = FALSE
  /\ heldAtResume = {}
  /\ reqAfterResume = {}

InitRecv(totals) ==
  /\ fileTotal \in totals
  /\ record = NoRecord
  /\ chunks = {}
  /\ RecvIdle

\* ------------------------------------------- data channel send path (webrtc)
BUFFER_THRESHOLD == 65536
MAX_BUFFER_SIZE == BUFFER_THRESHOLD * 4

Senders == 1..MaxSenders
\* sendChunk: payload Array.from(new Uint8Array(data)) in JSON, up to three
\* digits and a comma per byte of a chunk
ChunkMsgSize == 4 * DEFAULT_CHUNK_SIZE
\* sendFile: the 32 KiB chunk in base64
FileChunkMsgSize == 4 * ((DEFAULT_CHUNK_SIZE + 2) \div 3)
\* size of the JSON text of a message: a small control message, and a CHUNK
\* message whose 32 KiB payload is written as an array of numbers
MsgSizes == {ControlMsgSize, ChunkMsgSize}
TransportLimit == MAX_BUFFER_SIZE + TransportSlack * BUFFER_THRESHOLD

SendIdle ==
  /\ bufferedAmount = 0
  /\ channelState = "open"
  /\ sendPath = "none"
  /\ spc = [s \in Senders |-> "idle"]
  /\ ssize = [s \in Senders |-> 0]

RangesIdle ==
  /\ rRecord = NoRecord
  /\ rMaxSize = 0
  /\ rMissing = NotComputed
  /\ rRequest = NotComputed

NoRecordMeta == [name |-> "", size |-> 0, chunkSize |-> 0]
NoSession == [exists |-> FALSE,
              metadata |-> [name |-> "", size |-> 0, chunkSize |-> 0,
                            totalChunks |-> 0],
              bitfieldLength |-> 0]

ValidateIdle ==
  /\ recordMeta = NoRecordMeta
  /\ session = NoSession
  /\ vResult = "none"
  /\ vBefore = NoRecord

NoFileMetadata == [exists |-> FALSE, size |-> 0, chunkSize |-> 0,
                   totalChunks |-> 0, announced |-> FALSE]

ChunkingIdle ==
  /\ fileSize = 0
  /\ chunkSizeArg = 0
  /\ metadata = NoFileMetadata
  /\ chunkInfos = <<>>

\* Holt: the state set by the constructor and by reset()
HoltFresh ==
  /\ holt = [level |-> 0, trend |-> 0, initialized |-> FALSE, updateCount |-> 0]
  /\ residuals = <<>>
  /\ holtUpdates = 0
  /\ holtInputs = {}

\* signaling server: socket ids, room ids (strings of 8 characters) and the
\* ids of socket.io rooms share one name space
Sockets == 1..MaxSockets
RoomIds == {MaxSockets + i : i \in 1..MaxRooms}
FileIds == 1..MaxFileIds
NoSocket == 0           \* host: null
NoRoom == 0             \* undefined roomId, null room
NoFileId == 0           \* fileId: null
InvalidRoomId == -1     \* a roomId that is not a string of 8 characters

\* signaling server: the state when the server starts listening
ServerIdle ==
  /\ rooms = <<>>
  /\ peerToRoom = [s \in Sockets |-> NoRoom]
  /\ connected = {}
  /\ departed = {}
  /\ adapter = [r \in RoomIds |-> {}]
  /\ emitted = {}
  /\ requests = 0

\* no BITFIELD message has arrived
NoHandshake == {-1}
NoHandshakeYet == handshake = NoHandshake

\* handleNeedMessage has not been called
NoPosition == [range |-> 0, index |-> 0]
NeedIdle ==
  /\ needRanges = <<>>
  /\ needFails = {}
  /\ needPos = NoPosition
  /\ needSent = <<>>
  /\ needFailed = FALSE

\* the direct path is not in use
NoStreamProgress == [status |-> "none", by |-> 0]
StreamIdle ==
  /\ sTotal = 0
  /\ sChannel = "closed"
  /\ sToPeer = <<>>
  /\ sToHost = 0
  /\ sShares = 0
  /\ sPending = FALSE
  /\ sMeta = FALSE
  /\ sReceived = {}
  /\ sLoops = <<>>
  /\ sProgress = NoStreamProgress
  /\ sDownloads = {}

\* no peer connection exists
IceIdle == ice = <<>>

\* no page is open
Browsers == 1..MaxBrowsers
NoBrowser == 0
NoPage == [pc |-> "closed", browser |-> NoBrowser, roomId |-> NoRoom,
           isHost |-> FALSE, assigned |-> FALSE, handled |-> 0]
RoleIdle ==
  /\ clients = [s \in Sockets |-> NoPage]
  /\ localStorage = [b \in Browsers |-> [r \in RoomIds |-> FALSE]]

ExtraIdle == NeedIdle /\ StreamIdle /\ IceIdle /\ RoleIdle

\* no function is being checked on its own
PureIdle == RangesIdle /\ ValidateIdle /\ ChunkingIdle /\ HoltFresh /\ ServerIdle /\ NoHandshakeYet /\ ExtraIdle

Init == InitRecv(1..MaxChunks) /\ SendIdle /\ PureIdle

InitSend ==
  /\ InitRecv({0}) /\ PureIdle
  /\ bufferedAmount = 0
  /\ channelState = "open"
  /\ sendPath \in {"sendMessage", "sendFile"}
  /\ spc = [s \in Senders |-> "idle"]
  /\ ssize = [s \in Senders |-> 0]

\* continuations of resolved waitForBufferDrain promises run as microtasks,
\* before the next task (a new call, a transport event) is taken
MicrotaskPending == \E s \in Senders : spc[s] = "resolved"

\* sendMessage called while the channel is not open: throws
sendMessageClosed(s) ==
  /\ sendPath = "sendMessage"
  /\ ~MicrotaskPending
  /\ spc[s] = "idle"
  /\ channelState # "open"
  /\ spc' = [spc EXCEPT ![s] = "failed"]
  /\ UNCHANGED <<recvVars, pureVars, bufferedAmount, channelState, sendPath, ssize>>

\* sendMessage when the buffer can take the message: send at once
sendMessageNow(s, messageSize) ==
  /\ sendPath = "sendMessage"
  /\ ~MicrotaskPending
  /\ spc[s] = "idle"
  /\ channelState = "open"
  /\ bufferedAmount + messageSize <= MAX_BUFFER_SIZE
  /\ bufferedAmount' = bufferedAmount + messageSize
  /\ UNCHANGED <<recvVars, pureVars, channelState, sendPath, spc, ssize>>

\* sendMessage when the buffer cannot take the message: waitForBufferDrain
\* resolves at once if the buffer is at or below the threshold, and
\* otherwise registers a once-listener for bufferedamountlow
waitForBufferDrain(s, messageSize) ==
  /\ sendPath = "sendMessage"
  /\ ~MicrotaskPending
  /\ spc[s] = "idle"
  /\ channelState = "open"
  /\ bufferedAmount + messageSize > MAX_BUFFER_SIZE
  /\ spc' = [spc EXCEPT ![s] = IF bufferedAmount <= BUFFER_THRESHOLD
                                THEN "resolved" ELSE "waiting"]
  /\ ssize' = [ssize EXCEPT ![s] = messageSize]
  /\ UNCHANGED <<recvVars, pureVars, bufferedAmount, channelState, sendPath>>

\* sendMessage after the await: dataChannel.send(messageString)
sendMessageAfterDrain(s) ==
  /\ spc[s] = "resolved"
  /\ IF channelState = "open"
     THEN /\ bufferedAmount + ssize[s] <= TransportLimit
          /\ bufferedAmount' = bufferedAmount + ssize[s]
          /\ spc' = [spc EXCEPT ![s] = "idle"]
     ELSE /\ spc' = [spc EXCEPT ![s] = "failed"]
          /\ UNCHANGED bufferedAmount
  /\ ssize' = [ssize EXCEPT ![s] = 0]
  /\ UNCHANGED <<recvVars, pureVars, channelState, sendPath>>

\* sendFile: channel.send(JSON.stringify(message)) for the next chunk, then a
\* 10 ms timer
sendFile ==
  /\ sendPath = "sendFile"
  /\ channelState = "open"
  /\ bufferedAmount + FileChunkMsgSize <= TransportLimit
  /\ bufferedAmount' = bufferedAmount + FileChunkMsgSize
  /\ UNCHANGED <<recvVars, pureVars, channelState, sendPath, spc, ssize>>

\* the transport transmits buffered bytes; bufferedamountlow fires when the
\* amount falls to or below bufferedAmountLowThreshold, and every registered
\* listener resolves its promise
BufferDrain ==
  /\ ~MicrotaskPending
  /\ channelState = "open"
  /\ bufferedAmount > 0
  /\ \E left \in {0} \cup {k * DrainUnit : k \in 1..(TransportLimit \div DrainUnit)} :
       /\ left < bufferedAmount
       /\ bufferedAmount' = left
       /\ spc' = IF bufferedAmount > BUFFER_THRESHOLD /\ left <= BUFFER_THRESHOLD
                 THEN [s \in Senders |-> IF spc[s] = "waiting" THEN "resolved" ELSE spc[s]]
                 ELSE spc
  /\ UNCHANGED <<recvVars, pureVars, channelState, sendPath, ssize>>

\* the data channel closes; nothing is listening for it in sendMessage
ChannelClose ==
  /\ ~MicrotaskPending
  /\ channelState = "open"
  /\ channelState' = "closed"
  /\ UNCHANGED <<recvVars, pureVars, bufferedAmount, sendPath, spc, ssize>>

NextSend ==
  \/ \E s \in Senders : sendMessageClosed(s)
  \/ \E s \in Senders, m \in MsgSizes : sendMessageNow(s, m)
  \/ \E s \in Senders, m \in MsgSizes : waitForBufferDrain(s, m)
  \/ \E s \in Senders : sendMessageAfterDrain(s)
  \/ sendFile
  \/ BufferDrain
  \/ ChannelClose

SpecSend == InitSend /\ [][NextSend]_vars

\* the transport gets the buffer down to the low-water mark, which fires
\* bufferedamountlow
DrainsBelowThreshold == BufferDrain /\ bufferedAmount' <= BUFFER_THRESHOLD

\* an open channel keeps transmitting until the low-water mark is reached,
\* however fast the senders refill the buffer, and the continuation of a
\* resolved promise always runs
SpecSendFair ==
  /\ InitSend /\ [][NextSend]_vars
  /\ SF_vars(DrainsBelowThreshold)
  /\ \A s \in Senders : WF_vars(sendMessageAfterDrain(s))


\* handleHostMessage, case 'META'
\* a META handler that creates the record and its bitfield at once
ReceiveMetaCreatingRecord ==
  /\ hostOpen
  /\ pendingMetadata = NoMetadata
  /\ IF record.exists
     THEN events < MaxEvents /\ events' = events + 1
     ELSE UNCHANGED events
  /\ pendingMetadata' = fileTotal
  /\ record' = [exists |-> TRUE, totalChunks |-> fileTotal,
                bitfield |-> createBitfield(fileTotal), receivedCount |-> 0]
  /\ UNCHANGED <<sendVars, pureVars, fileTotal, chunks, isActive, progress, downloadedFile,
                 chanVars, handlerVars, histVars>>

ReceiveMeta ==
  /\ hostOpen
  /\ pendingMetadata = NoMetadata
  /\ IF record.exists
     THEN events < MaxEvents /\ events' = events + 1
     ELSE UNCHANGED events
  /\ pendingMetadata' = fileTotal
  /\ UNCHANGED <<sendVars, pureVars, fileTotal, storeVars, isActive, progress, downloadedFile,
                 chanVars, handlerVars, histVars>>

acceptFile ==
  /\ pendingMetadata # NoMetadata
  /\ LET fresh == [exists |-> TRUE, totalChunks |-> pendingMetadata,
                   bitfield |-> createBitfield(pendingMetadata),
                   receivedCount |-> 0]
         msgs == requestMissingChunks(fresh, hostOpen)
     IN /\ Len(toHost) + Len(msgs) <= QueueCap
        /\ record' = fresh
        /\ toHost' = toHost \o msgs
        /\ sentRanges' = RequestedRanges(msgs)
  /\ isActive' = TRUE
  /\ pendingMetadata' = NoMetadata
  /\ progress' = [exists |-> TRUE, receivedChunks |-> 0, status |-> "downloading"]
  /\ bitSetRuns' = {}
  /\ resumed' = FALSE
  /\ heldAtResume' = {}
  /\ reqAfterResume' = {}
  /\ UNCHANGED <<sendVars, pureVars, fileTotal, events, chunks, downloadedFile, hostOpen, toPeer,
                 handlerVars>>

\* pauseTransfer that also starts the record over
pauseTransferResetting ==
  /\ isActive
  /\ events < MaxEvents
  /\ events' = events + 1
  /\ isActive' = FALSE
  /\ record' = IF record.exists
               THEN [record EXCEPT !.bitfield = createBitfield(record.totalChunks),
                                   !.receivedCount = 0]
               ELSE record
  /\ UNCHANGED <<sendVars, pureVars, fileTotal, chunks, progress, downloadedFile,
                 pendingMetadata, chanVars, handlerVars, histVars>>

pauseTransfer ==
  /\ isActive
  /\ events < MaxEvents
  /\ events' = events + 1
  /\ isActive' = FALSE
  /\ UNCHANGED <<sendVars, pureVars, fileTotal, storeVars, progress, downloadedFile,
                 pendingMetadata, chanVars, handlerVars, histVars>>

resumeTransfer ==
  /\ ~isActive
  /\ progress.exists
  /\ isActive' = TRUE
  /\ LET msgs == requestMissingChunks(record, hostOpen)
     IN /\ Len(toHost) + Len(msgs) <= QueueCap
        /\ toHost' = toHost \o msgs
        /\ sentRanges' = sentRanges \cup RequestedRanges(msgs)
        /\ reqAfterResume' = Covered([k \in 1..Len(msgs) |-> msgs[k].ranges[1]])
  /\ resumed' = TRUE
  /\ heldAtResume' = Held(record)
  /\ UNCHANGED <<sendVars, pureVars, fileTotal, events, storeVars, progress, downloadedFile,
                 pendingMetadata, hostOpen, toPeer, handlerVars, bitSetRuns>>

\* handleHostMessage, case 'CHUNK', while no transfer is active: the message
\* is dropped
ChunkIgnored ==
  /\ toPeer # <<>>
  /\ ~progress.exists \/ ~isActive
  /\ toPeer' = Tail(toPeer)
  /\ UNCHANGED <<sendVars, pureVars, fileTotal, events, storeVars, hookVars, hostOpen, toHost,
                 handlerVars, histVars>>

\* handleHostMessage, case 'CHUNK', after setBitfieldBit has stored rec:
\* ACK, progress update from the record, then assembly or the next requests
FinishChunk(rec, stored) ==
  IF rec.exists
  THEN /\ progress' = [progress EXCEPT
                         !.receivedChunks = rec.receivedCount,
                         !.status = IF rec.receivedCount = rec.totalChunks
                                    THEN "completed" ELSE "downloading"]
       /\ IF rec.receivedCount = rec.totalChunks
          THEN /\ LET file == assembleFile(rec, stored)
                  IN IF file # NoFile
                     THEN downloadedFile' = file /\ isActive' = FALSE
                     ELSE UNCHANGED <<downloadedFile, isActive>>
               /\ UNCHANGED <<toHost, sentRanges, reqAfterResume>>
          ELSE /\ LET msgs == requestMissingChunks(rec, hostOpen)
                  IN /\ Len(toHost) + Len(msgs) <= QueueCap
                     /\ toHost' = toHost \o msgs
                     /\ NoteSent(msgs)
               /\ UNCHANGED <<downloadedFile, isActive>>
  ELSE UNCHANGED <<progress, downloadedFile, isActive, toHost, sentRanges,
                   reqAfterResume>>

\* handleHostMessage, case 'CHUNK', run from the message to the end of the
\* handler with no other handler in between
ChunkHandled ==
  /\ toPeer # <<>>
  /\ progress.exists /\ isActive
  /\ record.exists
  /\ record.receivedCount < CountCap
  /\ toPeer' = Tail(toPeer)
  /\ chunks' = chunks \cup {Head(toPeer)}
  /\ record' = setBitfieldBit(record, Head(toPeer))
  /\ bitSetRuns' = bitSetRuns \cup {Head(toPeer)}
  /\ FinishChunk(record', chunks')
  /\ UNCHANGED <<sendVars, pureVars, fileTotal, events, pendingMetadata, hostOpen, handlerVars,
                 resumed, heldAtResume>>

\* handleHostMessage, case 'CHUNK': a handler starts, stores the chunk and is
\* suspended in setBitfieldBit
ChunkPut ==
  /\ hpc = "idle"
  /\ toPeer # <<>>
  /\ progress.exists /\ isActive
  /\ toPeer' = Tail(toPeer)
  /\ chunks' = chunks \cup {Head(toPeer)}
  /\ hidx' = Head(toPeer)
  /\ hpc' = "read"
  /\ UNCHANGED <<sendVars, pureVars, fileTotal, events, record, hookVars,
                 hostOpen, toHost, hrec, vrec, histVars>>

\* setBitfieldBit: await getFileRecord(fileId)
ChunkReadRecord ==
  /\ hpc = "read"
  /\ IF record.exists
     THEN hrec' = record /\ hpc' = "write"
     ELSE hpc' = "idle" /\ UNCHANGED hrec
  /\ UNCHANGED <<sendVars, pureVars, fileTotal, events, storeVars, hookVars,
                 chanVars, hidx, vrec, histVars>>

\* setBitfieldBit: set the bit, count, await putFileRecord(record)
ChunkWriteRecord ==
  /\ hpc = "write"
  /\ hrec.receivedCount < CountCap
  /\ record' = setBitfieldBit(hrec, hidx)
  /\ hrec' = NoRecord
  /\ hpc' = "finish"
  /\ bitSetRuns' = bitSetRuns \cup {hidx}
  /\ UNCHANGED <<sendVars, pureVars, fileTotal, events, chunks, hookVars,
                 chanVars, hidx, vrec, sentRanges, resumeHist>>

\* the suspended handler resumes after setBitfieldBit
ChunkFinish ==
  /\ hpc = "finish"
  /\ hpc' = "idle"
  /\ hidx' = 0
  /\ FinishChunk(record, chunks)
  /\ UNCHANGED <<sendVars, pureVars, fileTotal, events, storeVars,
                 pendingMetadata, hostOpen, toPeer, hrec, vrec, bitSetRuns,
                 resumed, heldAtResume>>

\* validateResumeSession: the count of set bits over 0..totalChunks-1
actualReceivedCount(rec) ==
  Cardinality({i \in 0..(rec.totalChunks - 1) :
                 (i \div 8) < Len(rec.bitfield) /\ BitTest(rec.bitfield, i)})

\* updateBitfield that stores the bitfield and leaves the count as it was
updateBitfieldKeepingCount(rec, bitfield, receivedCount) ==
  [rec EXCEPT !.bitfield = bitfield]

\* updateBitfield: the record put back, from the record it reads
updateBitfield(rec, bitfield, receivedCount) ==
  [rec EXCEPT !.bitfield = bitfield, !.receivedCount = receivedCount]

\* validateResumeSession for a session just created from the record, when
\* the stored count disagrees with the bitfield: the count is repaired
validateResumeSession ==
  /\ record.exists
  /\ vrec = NoRecord
  /\ actualReceivedCount(record) # record.receivedCount
  /\ record' = updateBitfield(record, record.bitfield, actualReceivedCount(record))
  /\ UNCHANGED <<sendVars, pureVars, fileTotal, events, chunks, hookVars,
                 chanVars, handlerVars, histVars>>

\* validateResumeSession up to its call of updateBitfield
ValidateReadRecord ==
  /\ record.exists
  /\ vrec = NoRecord
  /\ actualReceivedCount(record) # record.receivedCount
  /\ vrec' = record
  /\ UNCHANGED <<sendVars, pureVars, fileTotal, events, storeVars, hookVars,
                 chanVars, hpc, hidx, hrec, histVars>>

\* updateBitfield called by the suspended validateResumeSession
ValidateUpdateBitfield ==
  /\ vrec # NoRecord
  /\ record' = IF record.exists
               THEN updateBitfield(record, vrec.bitfield, actualReceivedCount(vrec))
               ELSE record
  /\ vrec' = NoRecord
  /\ UNCHANGED <<sendVars, pureVars, fileTotal, events, chunks, hookVars,
                 chanVars, hpc, hidx, hrec, histVars>>

\* Math.ceil(a / b) for positive integers
CeilDiv(a, b) == (a + b - 1) \div b

\* validateResumeSession(session) on the stored record rec whose metadata has
\* the name, size and chunkSize of meta: what it returns and the record it
\* leaves in the store
validateResumeSessionResult(rec, meta, sess) ==
  IF ~rec.exists
  THEN [valid |-> FALSE, record |-> rec]
  ELSE IF \/ meta.name # sess.metadata.name
          \/ meta.size # sess.metadata.size
          \/ rec.totalChunks # sess.metadata.totalChunks
  THEN [valid |-> FALSE, record |-> rec]
  ELSE IF Len(rec.bitfield) # sess.bitfieldLength
  THEN [valid |-> FALSE, record |-> rec]
  ELSE [valid |-> TRUE,
        record |-> IF actualReceivedCount(rec) # rec.receivedCount
                   THEN updateBitfield(rec, rec.bitfield, actualReceivedCount(rec))
                   ELSE rec]

\* validateResumeSession called with a stored session, no other handler
\* running
ValidateSession ==
  /\ session.exists
  /\ vResult = "none"
  /\ LET res == validateResumeSessionResult(record, recordMeta, session)
     IN /\ vResult' = IF res.valid THEN "true" ELSE "false"
        /\ record' = res.record
  /\ vBefore' = record
  /\ UNCHANGED <<sendVars, rangeVars, chunkingVars, holtVars, serverVars, handshake, extraVars, fileTotal, events,
                 chunks, hookVars, chanVars, handlerVars, histVars,
                 recordMeta, session>>

\* the record of a receiver that holds exactly the chunks in held
RECURSIVE RecordHolding(_, _)
RecordHolding(totalChunks, held) ==
  IF held = {}
  THEN [exists |-> TRUE, totalChunks |-> totalChunks,
        bitfield |-> createBitfield(totalChunks), receivedCount |-> 0]
  ELSE LET i == CHOOSE x \in held : TRUE
       IN setBitfieldBit(RecordHolding(totalChunks, held \ {i}), i)

\* a page that finds a persisted record (its receivedCount possibly raised
\* by repeated chunks) and a stored session to resume from
InitValidate ==
  /\ SendIdle /\ RangesIdle /\ ChunkingIdle /\ HoltFresh /\ ServerIdle /\ NoHandshakeYet /\ ExtraIdle
  /\ RecvIdle
  /\ \E size \in 1..MaxValidateSize, chunkSize \in 1..MaxValidateChunkSize :
       /\ fileTotal = CeilDiv(size, chunkSize)
       /\ recordMeta = [name |-> "a", size |-> size, chunkSize |-> chunkSize]
  /\ chunks \in SUBSET (0..(fileTotal - 1))
  /\ \E extra \in 0..CountSlack :
       record = [RecordHolding(fileTotal, chunks) EXCEPT !.receivedCount = @ + extra]
  /\ \E name \in {"a", "b"}, size \in 1..MaxValidateSize,
        chunkSize \in 1..MaxValidateChunkSize, grown \in 0..1 :
       session = [exists |-> TRUE,
                  metadata |-> [name |-> name, size |-> size, chunkSize |-> chunkSize,
                                totalChunks |-> CeilDiv(size, chunkSize)],
                  bitfieldLength |->
                    Len(createBitfield(CeilDiv(size, chunkSize))) + grown]
  /\ vResult = "none"
  /\ vBefore = NoRecord

NextValidate == ValidateSession

SpecValidate == InitValidate /\ [][NextValidate]_vars

\* a serving loop that runs from endIndex down to startIndex
RECURSIVE ChunksForDescending(_)
ChunksForDescending(ranges) ==
  IF ranges = <<>> THEN <<>>
  ELSE [k \in 1..(Head(ranges).end - Head(ranges).start + 1) |->
          Head(ranges).end - k + 1] \o ChunksForDescending(Tail(ranges))

\* the chunk indices a host sends for the ranges of one REQUEST or NEED
RECURSIVE ChunksFor(_)
ChunksFor(ranges) ==
  IF ranges = <<>> THEN <<>>
  ELSE [k \in 1..(Head(ranges).end - Head(ranges).start + 1) |->
          Head(ranges).start + k - 1] \o ChunksFor(Tail(ranges))

\* host: handlePeerMessage case 'REQUEST', and handleNeedMessage for NEED
HostServe ==
  /\ toHost # <<>>
  /\ hostOpen
  /\ LET out == ChunksFor(Head(toHost).ranges)
     IN /\ Len(toPeer) + Len(out) <= QueueCap
        /\ toPeer' = toPeer \o out
  /\ toHost' = Tail(toHost)
  /\ UNCHANGED <<sendVars, pureVars, fileTotal, events, storeVars, hookVars, hostOpen,
                 handlerVars, histVars>>

\* a message of type 'ERROR' on the way to the receiver (no code sends one)
ErrorMessage == -1

\* the first index past the end of the file, and the first index past the
\* last byte of its bitfield
StrayIndices(n) == {n, 8 * ((n + 7) \div 8)}

\* ranges of a REQUEST that name an index the host does not have
StrayRanges(n) ==
  {[start |-> i, end |-> i] : i \in StrayIndices(n)} \cup
  {r \in [start : {n - 1}, end : {n}] : r.start >= 0}

\* a REQUEST from a misbehaving or desynchronized peer reaches the host
StrayRequest ==
  /\ hostOpen
  /\ Len(toHost) < QueueCap
  /\ events < MaxEvents
  /\ events' = events + 1
  /\ \E r \in StrayRanges(fileTotal) : toHost' = Append(toHost, Request(r))
  /\ UNCHANGED <<sendVars, pureVars, fileTotal, storeVars, hookVars, hostOpen, toPeer,
                 handlerVars, histVars>>

\* host: handlePeerMessage while the sender hook is not active (no file
\* shared yet, or sending paused by its user): the message is dropped
HostIgnored ==
  /\ toHost # <<>>
  /\ hostOpen
  /\ toHost' = Tail(toHost)
  /\ UNCHANGED <<sendVars, pureVars, fileTotal, events, storeVars, hookVars, hostOpen, toPeer,
                 handlerVars, histVars>>

\* the transport to the host closes: handleHostDisconnect only reads the
\* store; messages in flight are lost
HostDisconnect ==
  /\ hostOpen
  /\ events < MaxEvents
  /\ events' = events + 1
  /\ hostOpen' = FALSE
  /\ toHost' = <<>>
  /\ toPeer' = <<>>
  /\ sentRanges' = {}
  /\ UNCHANGED <<sendVars, pureVars, fileTotal, storeVars, hookVars, handlerVars, bitSetRuns,
                 resumeHist>>

\* handleHostRejoin that asks for what the host's BITFIELD message lacks
handleHostRejoinFromHandshake ==
  /\ ~hostOpen
  /\ hostOpen' = TRUE
  /\ IF record.exists
     THEN LET missingRanges ==
                IF handshake = NoHandshake THEN getMissingRanges(record)
                ELSE getMissingRanges(RecordHolding(record.totalChunks, handshake))
          IN /\ toHost' = IF Len(missingRanges) > 0
                          THEN toHost \o <<Need(missingRanges)>> ELSE toHost
             /\ resumed' = TRUE
             /\ heldAtResume' = Held(record)
             /\ reqAfterResume' = Covered(missingRanges)
     ELSE UNCHANGED <<toHost, resumeHist>>
  /\ UNCHANGED <<sendVars, pureVars, fileTotal, events, storeVars, hookVars, toPeer, handlerVars,
                 sentRanges, bitSetRuns>>

\* the transport reopens: handleHostRejoin sends NEED with the missing ranges
handleHostRejoin ==
  /\ ~hostOpen
  /\ hostOpen' = TRUE
  /\ IF record.exists
     THEN LET missingRanges == getMissingRanges(record)
          IN /\ toHost' = IF Len(missingRanges) > 0
                          THEN toHost \o <<Need(missingRanges)>> ELSE toHost
             /\ resumed' = TRUE
             /\ heldAtResume' = Held(record)
             /\ reqAfterResume' = Covered(missingRanges)
     ELSE UNCHANGED <<toHost, resumeHist>>
  /\ UNCHANGED <<sendVars, pureVars, fileTotal, events, storeVars, hookVars, toPeer, handlerVars,
                 sentRanges, bitSetRuns>>

\* every handler runs to its end before the next message is handled
Next ==
  \/ ReceiveMeta
  \/ acceptFile
  \/ pauseTransfer
  \/ resumeTransfer
  \/ ChunkIgnored
  \/ ChunkHandled
  \/ HostServe
  \/ HostDisconnect
  \/ handleHostRejoin
  \/ validateResumeSession

Spec == Init /\ [][Next]_vars

\* a CHUNK handler may be suspended at the awaits of setBitfieldBit while
\* other handlers run
NextRace ==
  \/ ReceiveMeta
  \/ acceptFile
  \/ pauseTransfer
  \/ resumeTransfer
  \/ ChunkIgnored
  \/ ChunkHandled
  \/ ChunkPut
  \/ ChunkReadRecord
  \/ ChunkWriteRecord
  \/ ChunkFinish
  \/ HostServe
  \/ ValidateReadRecord
  \/ ValidateUpdateBitfield

InitRace == InitRecv(1..RaceChunks) /\ SendIdle /\ PureIdle

SpecRace == InitRace /\ [][NextRace]_vars

\* ------------------------------------------------ range computations
\* the loop of getMissingChunksFromBitfield from index i
RECURSIVE MissingChunksLoop(_, _, _, _)
MissingChunksLoop(bitfield, totalChunks, i, missing) ==
  IF i >= totalChunks THEN missing
  ELSE IF (i \div 8) >= Len(bitfield)
       THEN MissingChunksLoop(bitfield, totalChunks, i + 1, Append(missing, i))
       ELSE IF ~BitTest(bitfield, i)
            THEN MissingChunksLoop(bitfield, totalChunks, i + 1, Append(missing, i))
            ELSE MissingChunksLoop(bitfield, totalChunks, i + 1, missing)

getMissingChunksFromBitfield(bitfield, totalChunks) ==
  MissingChunksLoop(bitfield, totalChunks, 0, <<>>)

\* the loop of createRequestRanges from position i (1-based) of missingChunks
RECURSIVE RequestRangesLoop(_, _, _, _, _, _)
RequestRangesLoop(missingChunks, maxRangeSize, i, currentStart, currentEnd, ranges) ==
  IF i > Len(missingChunks)
  THEN Append(ranges, [start |-> currentStart, end |-> currentEnd])
  ELSE LET chunk == missingChunks[i]
       IN IF chunk = currentEnd + 1 /\ (currentEnd - currentStart + 1) < maxRangeSize
          THEN RequestRangesLoop(missingChunks, maxRangeSize, i + 1,
                                 currentStart, chunk, ranges)
          ELSE RequestRangesLoop(missingChunks, maxRangeSize, i + 1, chunk, chunk,
                                 Append(ranges, [start |-> currentStart,
                                                 end |-> currentEnd]))

createRequestRanges(missingChunks, maxRangeSize) ==
  IF Len(missingChunks) = 0 THEN <<>>
  ELSE RequestRangesLoop(missingChunks, maxRangeSize, 2,
                         missingChunks[1], missingChunks[1], <<>>)

InitRanges ==
  /\ InitRecv({0}) /\ SendIdle
  /\ ValidateIdle /\ ChunkingIdle /\ HoltFresh /\ ServerIdle /\ NoHandshakeYet /\ ExtraIdle
  /\ \E n \in 0..MaxRangeChunks : \E held \in SUBSET (0..(n - 1)) :
       rRecord = RecordHolding(n, held)
  /\ rMaxSize \in 1..MaxRangeSize
  /\ rMissing = NotComputed
  /\ rRequest = NotComputed

CallGetMissingRanges ==
  /\ rMissing = NotComputed
  /\ rMissing' = getMissingRanges(rRecord)
  /\ UNCHANGED <<recvVars, sendVars, validateVars, chunkingVars, holtVars, serverVars, handshake, extraVars,
                 rRecord, rMaxSize, rRequest>>

CallCreateRequestRanges ==
  /\ rRequest = NotComputed
  /\ rRequest' = createRequestRanges(
                   getMissingChunksFromBitfield(rRecord.bitfield, rRecord.totalChunks),
                   rMaxSize)
  /\ UNCHANGED <<recvVars, sendVars, validateVars, chunkingVars, holtVars, serverVars, handshake, extraVars,
                 rRecord, rMaxSize, rMissing>>

NextRanges ==
  \/ CallGetMissingRanges
  \/ CallCreateRequestRanges

SpecRanges == InitRanges /\ [][NextRanges]_vars

\* ------------------------------------------------------------ chunking
\* generateFileMetadata: the size, chunkSize and totalChunks of the metadata
FileMetadataOf(size, chunkSize) ==
  [exists |-> TRUE, size |-> size, chunkSize |-> chunkSize,
   totalChunks |-> CeilDiv(size, chunkSize), announced |-> FALSE]

\* getChunkInfo that gives every chunk the full chunkSize
getChunkInfoFullSize(chunkIndex, totalSize, chunkSize) ==
  [index |-> chunkIndex, size |-> chunkSize, offset |-> chunkIndex * chunkSize]

getChunkInfo(chunkIndex, totalSize, chunkSize) ==
  LET offset == chunkIndex * chunkSize
      remainingBytes == totalSize - offset
      actualSize == Min(chunkSize, remainingBytes)
  IN [index |-> chunkIndex, size |-> actualSize, offset |-> offset]

calculateOptimalChunkSize(size) ==
  IF size < 1024 * 1024 THEN 16 * 1024
  ELSE IF size < 100 * 1024 * 1024 THEN 32 * 1024
  ELSE 64 * 1024

\* file sizes on both sides of the thresholds of calculateOptimalChunkSize
PolicySizes == {1024 * 1024 - 1, 1024 * 1024,
                100 * 1024 * 1024 - 1, 100 * 1024 * 1024}

InitChunking ==
  /\ InitRecv({0}) /\ SendIdle
  /\ RangesIdle /\ ValidateIdle /\ HoltFresh /\ ServerIdle /\ NoHandshakeYet /\ ExtraIdle
  /\ fileSize \in (0..MaxFileSize) \cup PolicySizes
  /\ chunkSizeArg \in 1..MaxChunkSize
  /\ metadata = NoFileMetadata
  /\ chunkInfos = <<>>

\* generateFileMetadata(file, chunkSize) with the chunk size given
generateFileMetadata ==
  /\ ~metadata.exists
  /\ metadata' = FileMetadataOf(fileSize, chunkSizeArg)
  /\ UNCHANGED <<recvVars, sendVars, rangeVars, validateVars, holtVars, serverVars, handshake, extraVars,
                 fileSize, chunkSizeArg, chunkInfos>>

\* startTransfer: generateFileMetadata(file) with the default chunk size;
\* the metadata is announced to the peers in META
startTransfer ==
  /\ ~metadata.exists
  /\ metadata' = [FileMetadataOf(fileSize, DEFAULT_CHUNK_SIZE) EXCEPT !.announced = TRUE]
  /\ UNCHANGED <<recvVars, sendVars, rangeVars, validateVars, holtVars, serverVars, handshake, extraVars,
                 fileSize, chunkSizeArg, chunkInfos>>

\* readChunk for the next index of the file, as createChunkStream and the
\* sender do: getChunkInfo gives the slice
readChunk ==
  /\ metadata.exists
  /\ Len(chunkInfos) < metadata.totalChunks
  /\ Len(chunkInfos) < MaxChunksRead
  /\ chunkInfos' = Append(chunkInfos,
                          getChunkInfo(Len(chunkInfos), metadata.size, metadata.chunkSize))
  /\ UNCHANGED <<recvVars, sendVars, rangeVars, validateVars, holtVars, serverVars, handshake, extraVars,
                 fileSize, chunkSizeArg, metadata>>

NextChunking ==
  \/ generateFileMetadata
  \/ startTransfer
  \/ readChunk

SpecChunking == InitChunking /\ [][NextChunking]_vars

\* ------------------------------------------------- Holt (ETA prediction)
RECURSIVE PowerOf(_, _)
PowerOf(b, n) == IF n = 0 THEN 1 ELSE b * PowerOf(b, n - 1)

\* level, trend and the residuals are kept as integers in units of 1/HoltUnit
\* of a throughput unit, which makes alpha = 0.5 and beta = 0.3 exact for
\* MaxHoltUpdates updates (the initializing update does not divide)
HoltUnit == PowerOf(20, MaxHoltUpdates - 1)
Observations == {v * HoltUnit : v \in (0..MaxObservation) \cup {SteadySample}}

InitHolt == InitRecv({0}) /\ SendIdle /\ PureIdle

\* Holt.update that counts only the updates after the initializing one
updateCountingSmoothedOnly(value) ==
  /\ holt.updateCount < MaxHoltUpdates
  /\ IF ~holt.initialized
     THEN /\ holt' = [holt EXCEPT !.level = value, !.trend = 0, !.initialized = TRUE]
          /\ UNCHANGED residuals
     ELSE LET forecast == holt.level + holt.trend
              residual == value - forecast
              pushed == Append(residuals, residual)
              prevLevel == holt.level
              level == (5 * value + 5 * (holt.level + holt.trend)) \div 10
              trend == (3 * (level - prevLevel) + 7 * holt.trend) \div 10
          IN /\ residuals' = IF Len(pushed) > maxResiduals THEN Tail(pushed) ELSE pushed
             /\ holt' = [holt EXCEPT !.level = level, !.trend = trend,
                                     !.updateCount = holt.updateCount + 1]
  /\ holtUpdates' = holtUpdates + 1
  /\ holtInputs' = holtInputs \cup {value}
  /\ UNCHANGED <<recvVars, sendVars, rangeVars, validateVars, chunkingVars, serverVars, handshake, extraVars>>

\* Holt.update whose trend is smoothed from the new level itself instead of
\* from its change since the previous level
updateTrendFromLevel(value) ==
  /\ holt.updateCount < MaxHoltUpdates
  /\ IF ~holt.initialized
     THEN /\ holt' = [holt EXCEPT !.level = value, !.trend = 0, !.initialized = TRUE,
                                  !.updateCount = holt.updateCount + 1]
          /\ UNCHANGED residuals
     ELSE LET forecast == holt.level + holt.trend
              residual == value - forecast
              pushed == Append(residuals, residual)
              level == (5 * value + 5 * (holt.level + holt.trend)) \div 10
              trend == (3 * level + 7 * holt.trend) \div 10
          IN /\ residuals' = IF Len(pushed) > maxResiduals THEN Tail(pushed) ELSE pushed
             /\ holt' = [holt EXCEPT !.level = level, !.trend = trend,
                                     !.updateCount = holt.updateCount + 1]
  /\ holtUpdates' = holtUpdates + 1
  /\ holtInputs' = holtInputs \cup {value}
  /\ UNCHANGED <<recvVars, sendVars, rangeVars, validateVars, chunkingVars, serverVars, handshake, extraVars>>

\* Holt.update(value), with the default alpha = 0.5 and beta = 0.3
update(value) ==
  /\ holt.updateCount < MaxHoltUpdates
  /\ IF ~holt.initialized
     THEN /\ holt' = [holt EXCEPT !.level = value, !.trend = 0, !.initialized = TRUE,
                                  !.updateCount = holt.updateCount + 1]
          /\ UNCHANGED residuals
     ELSE LET forecast == holt.level + holt.trend
              residual == value - forecast
              pushed == Append(residuals, residual)
              prevLevel == holt.level
              level == (5 * value + 5 * (holt.level + holt.trend)) \div 10
              trend == (3 * (level - prevLevel) + 7 * holt.trend) \div 10
          IN /\ residuals' = IF Len(pushed) > maxResiduals THEN Tail(pushed) ELSE pushed
             /\ holt' = [holt EXCEPT !.level = level, !.trend = trend,
                                     !.updateCount = holt.updateCount + 1]
  /\ holtUpdates' = holtUpdates + 1
  /\ holtInputs' = holtInputs \cup {value}
  /\ UNCHANGED <<recvVars, sendVars, rangeVars, validateVars, chunkingVars, serverVars, handshake, extraVars>>

\* Holt.reset()
reset ==
  /\ holt' = [level |-> 0, trend |-> 0, initialized |-> FALSE, updateCount |-> 0]
  /\ residuals' = <<>>
  /\ holtUpdates' = 0
  /\ holtInputs' = {}
  /\ UNCHANGED <<recvVars, sendVars, rangeVars, validateVars, chunkingVars, serverVars, handshake, extraVars>>

isStable == holt.updateCount >= 3

\* Holt.forecast(steps)
forecast(steps) ==
  IF ~holt.initialized THEN 0
  ELSE LET f == holt.level + steps * holt.trend IN IF f > 0 THEN f ELSE 0

NextHolt ==
  \/ \E value \in Observations : update(value)
  \/ reset

SpecHolt == InitHolt /\ [][NextHolt]_vars

\* ------------------------------------------------------- signaling server
clientVars == <<recvVars, sendVars, rangeVars, validateVars, chunkingVars, holtVars,
               handshake, extraVars>>

InitSignaling == InitRecv({0}) /\ SendIdle /\ PureIdle

\* the rooms and peerToRoom maps, as the helper functions read them
ServerState == [rooms |-> rooms, peerToRoom |-> peerToRoom]

\* room.peers is a Set that iterates in insertion order
PeerSet(room) == {room.peers[i] : i \in DOMAIN room.peers}

createRoom(rs, roomId) ==
  IF roomId \in DOMAIN rs THEN rs
  ELSE [r \in DOMAIN rs \cup {roomId} |->
          IF r = roomId
          THEN [host |-> NoSocket, peers |-> <<>>, fileId |-> NoFileId]
          ELSE rs[r]]

addPeerToRoom(st, roomId, socketId, isHost) ==
  LET rs == createRoom(st.rooms, roomId)
      room == rs[roomId]
      host == IF Len(room.peers) = 0 THEN socketId
              ELSE IF isHost /\ room.host # socketId
                   THEN IF room.host \in PeerSet(room) THEN room.host ELSE socketId
                   ELSE room.host
      peers == IF socketId \in PeerSet(room) THEN room.peers
               ELSE Append(room.peers, socketId)
  IN [rooms |-> [rs EXCEPT ![roomId] = [room EXCEPT !.host = host, !.peers = peers]],
      peerToRoom |-> [st.peerToRoom EXCEPT ![socketId] = roomId]]

\* removePeerFromRoom that keeps a room whose last peer has left
removePeerFromRoomKeepingEmpty(st, socketId) ==
  LET roomId == st.peerToRoom[socketId]
      unchanged == [rooms |-> st.rooms, peerToRoom |-> st.peerToRoom, room |-> NoRoom]
  IN IF roomId = NoRoom THEN unchanged
     ELSE IF roomId \notin DOMAIN st.rooms THEN unchanged
     ELSE LET room == st.rooms[roomId]
              peers == SelectSeq(room.peers, LAMBDA p : p # socketId)
              host == IF room.host = socketId /\ Len(peers) > 0
                      THEN peers[1] ELSE room.host
          IN [rooms |-> [st.rooms EXCEPT ![roomId] =
                           [room EXCEPT !.host = host, !.peers = peers]],
              peerToRoom |-> [st.peerToRoom EXCEPT ![socketId] = NoRoom],
              room |-> IF Len(peers) = 0 THEN NoRoom ELSE roomId]

\* removePeerFromRoom(socketId): the maps after the call, and the id of the
\* room it returns (NoRoom for null)
removePeerFromRoom(st, socketId) ==
  LET roomId == st.peerToRoom[socketId]
      unchanged == [rooms |-> st.rooms, peerToRoom |-> st.peerToRoom, room |-> NoRoom]
  IN IF roomId = NoRoom THEN unchanged
     ELSE IF roomId \notin DOMAIN st.rooms THEN unchanged
     ELSE LET room == st.rooms[roomId]
              peers == SelectSeq(room.peers, LAMBDA p : p # socketId)
              p2r == [st.peerToRoom EXCEPT ![socketId] = NoRoom]
              host == IF room.host = socketId /\ Len(peers) > 0
                      THEN peers[1] ELSE room.host
          IN IF Len(peers) = 0
             THEN [rooms |-> [r \in DOMAIN st.rooms \ {roomId} |-> st.rooms[r]],
                   peerToRoom |-> p2r, room |-> NoRoom]
             ELSE [rooms |-> [st.rooms EXCEPT ![roomId] =
                                [room EXCEPT !.host = host, !.peers = peers]],
                   peerToRoom |-> p2r, room |-> roomId]

\* one event emitted to one socket
Emit(to, event, from, flag, fileId) ==
  [to |-> to, event |-> event, from |-> from, flag |-> flag, fileId |-> fileId]

\* socket.to(room): the sockets in a socket.io room other than the sender; a
\* socket is alone in the room named by its own id
To(ad, socketId, room) ==
  IF room \in RoomIds THEN ad[room] \ {socketId}
  ELSE IF room \in Sockets THEN ({room} \cap connected) \ {socketId}
  ELSE {}

\* io.on("connection")
connection(socketId) ==
  /\ socketId \notin connected \cup departed
  /\ connected' = connected \cup {socketId}
  /\ emitted' = {}
  /\ UNCHANGED <<rooms, peerToRoom, departed, adapter, requests, clientVars>>

\* socket.on("join")
join(socketId, roomId, preferHost) ==
  /\ socketId \in connected
  /\ requests < MaxRequests
  /\ requests' = requests + 1
  /\ IF roomId = InvalidRoomId
     THEN /\ emitted' = {Emit(socketId, "error", socketId, FALSE, NoFileId)}
          /\ UNCHANGED <<rooms, peerToRoom, adapter>>
     ELSE LET currentRoomId == peerToRoom[socketId]
              left == IF currentRoomId # NoRoom
                      THEN removePeerFromRoom(ServerState, socketId)
                      ELSE ServerState
              ad1 == IF currentRoomId # NoRoom
                     THEN [adapter EXCEPT ![currentRoomId] = @ \ {socketId}]
                     ELSE adapter
              ad2 == [ad1 EXCEPT ![roomId] = @ \cup {socketId}]
              st == addPeerToRoom(left, roomId, socketId, preferHost)
              isHost == st.rooms[roomId].host = socketId
          IN /\ rooms' = st.rooms
             /\ peerToRoom' = st.peerToRoom
             /\ adapter' = ad2
             /\ emitted' = {Emit(socketId, "joined", socketId, isHost, NoFileId)} \cup
                           {Emit(p, "peer-joined", socketId, isHost, NoFileId) :
                              p \in To(ad2, socketId, roomId)}
  /\ UNCHANGED <<connected, departed, clientVars>>

\* socket.on("leave")
leave(socketId, roomId) ==
  /\ socketId \in connected
  /\ requests < MaxRequests
  /\ requests' = requests + 1
  /\ LET ad == [adapter EXCEPT ![roomId] = @ \ {socketId}]
         res == removePeerFromRoom(ServerState, socketId)
     IN /\ rooms' = res.rooms
        /\ peerToRoom' = res.peerToRoom
        /\ adapter' = ad
        /\ emitted' = IF res.room # NoRoom
                      THEN {Emit(p, "peer-left", socketId, FALSE, NoFileId) :
                              p \in To(ad, socketId, roomId)}
                      ELSE {}
  /\ UNCHANGED <<connected, departed, clientVars>>

\* socket.on("signal")
signal(socketId, to) ==
  /\ socketId \in connected
  /\ requests < MaxRequests
  /\ requests' = requests + 1
  /\ emitted' = IF to = NoSocket
                THEN {Emit(socketId, "error", socketId, FALSE, NoFileId)}
                ELSE {Emit(p, "signal", socketId, FALSE, NoFileId) :
                        p \in To(adapter, socketId, to)}
  /\ UNCHANGED <<rooms, peerToRoom, connected, departed, adapter,
                 clientVars>>

\* socket.on("file-status")
fileStatus(socketId, fileId) ==
  /\ socketId \in connected
  /\ requests < MaxRequests
  /\ requests' = requests + 1
  /\ LET roomId == peerToRoom[socketId]
     IN IF roomId = NoRoom \/ roomId \notin DOMAIN rooms
        THEN emitted' = {} /\ UNCHANGED rooms
        ELSE IF rooms[roomId].host # socketId
        THEN emitted' = {} /\ UNCHANGED rooms
        ELSE /\ rooms' = IF fileId # NoFileId
                         THEN [rooms EXCEPT ![roomId].fileId = fileId]
                         ELSE rooms
             /\ emitted' = {Emit(p, "file-status", socketId, FALSE, fileId) :
                              p \in To(adapter, socketId, roomId)}
  /\ UNCHANGED <<peerToRoom, connected, departed, adapter, clientVars>>

\* socket.on("host-reconnect")
hostReconnect(socketId, roomId, fileId) ==
  /\ socketId \in connected
  /\ requests < MaxRequests
  /\ requests' = requests + 1
  /\ IF roomId = NoRoom \/ roomId \notin DOMAIN rooms
     THEN emitted' = {} /\ UNCHANGED <<rooms, peerToRoom, adapter>>
     ELSE LET room == rooms[roomId]
              ad == [adapter EXCEPT ![roomId] = @ \cup {socketId}]
              peers == IF socketId \in PeerSet(room) THEN room.peers
                       ELSE Append(room.peers, socketId)
              newFileId == IF fileId # NoFileId THEN fileId ELSE room.fileId
          IN /\ adapter' = ad
             /\ rooms' = [rooms EXCEPT ![roomId] =
                            [host |-> socketId, peers |-> peers, fileId |-> newFileId]]
             /\ peerToRoom' = [peerToRoom EXCEPT ![socketId] = roomId]
             /\ emitted' = {Emit(p, "host-rejoined", socketId, FALSE, newFileId) :
                              p \in To(ad, socketId, roomId)}
  /\ UNCHANGED <<connected, departed, clientVars>>

\* socket.on("disconnect"); socket.io has taken the socket out of its rooms
\* before the handler runs
disconnect(socketId) ==
  /\ socketId \in connected
  /\ connected' = connected \ {socketId}
  /\ departed' = departed \cup {socketId}
  /\ LET ad == [r \in RoomIds |-> adapter[r] \ {socketId}]
         roomId == peerToRoom[socketId]
         res == removePeerFromRoom(ServerState, socketId)
     IN /\ adapter' = ad
        /\ IF roomId = NoRoom
           THEN emitted' = {} /\ UNCHANGED <<rooms, peerToRoom>>
           ELSE /\ rooms' = res.rooms
                /\ peerToRoom' = res.peerToRoom
                /\ emitted' =
                     IF res.room = NoRoom THEN {}
                     ELSE LET wasHost == res.rooms[roomId].host = socketId
                          IN {Emit(p, "peer-left", socketId, FALSE, NoFileId) :
                                p \in To(ad, socketId, roomId)} \cup
                             IF wasHost
                             THEN {Emit(p, "host-status", socketId, FALSE, NoFileId) :
                                     p \in To(ad, socketId, roomId)}
                             ELSE {}
  /\ UNCHANGED <<requests, clientVars>>

NextSignaling ==
  \/ \E socketId \in Sockets : connection(socketId)
  \/ \E socketId \in Sockets, roomId \in RoomIds \cup {InvalidRoomId},
        preferHost \in BOOLEAN : join(socketId, roomId, preferHost)
  \/ \E socketId \in Sockets, roomId \in RoomIds : leave(socketId, roomId)
  \/ \E socketId \in Sockets, to \in Sockets \cup RoomIds \cup {NoSocket} :
        signal(socketId, to)
  \/ \E socketId \in Sockets, fileId \in FileIds \cup {NoFileId} :
        fileStatus(socketId, fileId)
  \/ \E socketId \in Sockets, roomId \in RoomIds \cup {NoRoom},
        fileId \in FileIds \cup {NoFileId} : hostReconnect(socketId, roomId, fileId)
  \/ \E socketId \in Sockets : disconnect(socketId)

SpecSignaling == InitSignaling /\ [][NextSignaling]_vars

\* a file with more chunks than the request window, handlers run in sequence
InitWindow == InitRecv({windowSize + 2}) /\ SendIdle /\ PureIdle

NextWindow ==
  \/ ReceiveMeta
  \/ acceptFile
  \/ ChunkHandled
  \/ HostServe

SpecWindow == InitWindow /\ [][NextWindow]_vars

\* a file with more chunks than the default maxRangeSize, handlers run in
\* sequence
InitLongFile == InitRecv({DEFAULT_MAX_RANGE_SIZE + 1}) /\ SendIdle /\ PureIdle

SpecLongFile == InitLongFile /\ [][NextWindow]_vars

\* the host also receives REQUESTs that name indices it does not have
NextStray ==
  \/ ReceiveMeta
  \/ acceptFile
  \/ ChunkIgnored
  \/ ChunkHandled
  \/ HostServe
  \/ StrayRequest

SpecStray == Init /\ [][NextStray]_vars

\* the host may drop a REQUEST; every message that stays deliverable is
\* eventually handled
NextStall ==
  \/ ReceiveMeta
  \/ acceptFile
  \/ ChunkHandled
  \/ HostServe
  \/ HostIgnored

SpecStall ==
  /\ Init
  /\ [][NextStall]_vars
  /\ WF_vars(ChunkHandled)
  /\ WF_vars(HostServe \/ HostIgnored)

\* files of every size the host can announce, the empty file included
InitAnySize == InitRecv(0..MaxChunks) /\ SendIdle /\ PureIdle

SpecAnySize == InitAnySize /\ [][Next]_vars

\* ------------------------------------------- host: serving a NEED message
\* nothing but the added components is in use
BaseIdle ==
  /\ InitRecv({0}) /\ SendIdle
  /\ RangesIdle /\ ValidateIdle /\ ChunkingIdle /\ HoltFresh /\ ServerIdle
  /\ NoHandshakeYet

\* the loop position at the start of range number i (past the last range, the
\* function has returned)
PosAt(ranges, i) ==
  IF i > Len(ranges) THEN [range |-> i, index |-> 0]
  ELSE [range |-> i, index |-> ranges[i].start]

\* handleNeedMessage is called with the missing ranges of some receiver; the
\* sends of some chunk indices will throw
InitNeed ==
  /\ BaseIdle /\ StreamIdle /\ IceIdle /\ RoleIdle
  /\ \E n \in 1..MaxNeedChunks : \E held \in SUBSET (0..(n - 1)) :
       /\ needRanges = getMissingRanges(RecordHolding(n, held))
       /\ needFails \in SUBSET (0..(n - 1))
  /\ needPos = PosAt(needRanges, 1)
  /\ needSent = <<>>
  /\ needFailed = FALSE

\* handleNeedMessage: one turn of the inner loop; a throw is caught and
\* leaves the inner loop with break
handleNeedMessage ==
  /\ needPos.range \in 1..Len(needRanges)
  /\ LET range == needRanges[needPos.range]
         index == needPos.index
     IN IF index \in needFails
        THEN /\ needFailed' = TRUE
             /\ needPos' = PosAt(needRanges, needPos.range + 1)
             /\ UNCHANGED needSent
        ELSE /\ needSent' = Append(needSent, index)
             /\ needPos' = IF index < range.end
                           THEN [needPos EXCEPT !.index = index + 1]
                           ELSE PosAt(needRanges, needPos.range + 1)
             /\ UNCHANGED needFailed
  /\ UNCHANGED <<baseVars, streamVars, iceVars, roleVars, needRanges, needFails>>

NextNeed == handleNeedMessage

SpecNeed == InitNeed /\ [][NextNeed]_vars

\* ------------------------------------------- direct streaming of a file
\* the host and one peer are connected by an open data channel
InitStream ==
  /\ BaseIdle /\ NeedIdle /\ IceIdle /\ RoleIdle
  /\ sTotal \in 1..MaxStreamChunks
  /\ sChannel = "open"
  /\ sToPeer = <<>>
  /\ sToHost = 0
  /\ sShares = 0
  /\ sPending = FALSE
  /\ sMeta = FALSE
  /\ sReceived = {}
  /\ sLoops = <<>>
  /\ sProgress = NoStreamProgress
  /\ sDownloads = {}

\* shareFile: the host sends the metadata over every open channel
streamShareFile ==
  /\ sShares < MaxShares
  /\ sShares' = sShares + 1
  /\ sToPeer' = IF sChannel = "open"
                THEN Append(sToPeer, [type |-> "file-metadata", index |-> 0, isLast |-> FALSE])
                ELSE sToPeer
  /\ UNCHANGED <<baseVars, needVars, iceVars, roleVars, sTotal, sChannel, sToHost, sPending, sMeta,
                 sReceived, sLoops, sProgress, sDownloads>>

\* acceptFile: the peer accepts the pending metadata
streamAcceptFile ==
  /\ sPending
  /\ sPending' = FALSE
  /\ sMeta' = TRUE
  /\ sReceived' = {}
  /\ sToHost' = IF sChannel = "open" THEN sToHost + 1 ELSE sToHost
  /\ UNCHANGED <<baseVars, needVars, iceVars, roleVars, sTotal, sChannel, sToPeer, sShares, sLoops,
                 sProgress, sDownloads>>

\* sendFile up to its loop: 'file-accepted' arrives at the host, which has
\* shared a file
streamSendFile ==
  /\ sToHost > 0
  /\ sToHost' = sToHost - 1
  /\ IF sChannel # "open"
     THEN UNCHANGED <<sLoops, sProgress>>
     ELSE /\ sLoops' = Append(sLoops, [i |-> 0, sent |-> {}, done |-> FALSE])
          /\ sProgress' = [status |-> "starting", by |-> Len(sLoops) + 1]
  /\ UNCHANGED <<baseVars, needVars, iceVars, roleVars, sTotal, sChannel, sToPeer, sShares, sPending,
                 sMeta, sReceived, sDownloads>>

\* sendFile: one turn of the loop of call number l
streamSendChunk(l) ==
  /\ ~sLoops[l].done
  /\ sLoops[l].i < sTotal
  /\ LET i == sLoops[l].i
     IN IF sChannel = "open"
        THEN /\ sToPeer' = Append(sToPeer, [type |-> "chunk", index |-> i,
                                             isLast |-> (i = sTotal - 1)])
             /\ sProgress' = [status |-> IF i = sTotal - 1 THEN "completed" ELSE "uploading",
                              by |-> l]
             /\ sLoops' = [sLoops EXCEPT ![l] = [@ EXCEPT !.i = i + 1, !.sent = @ \cup {i}]]
        ELSE /\ sLoops' = [sLoops EXCEPT ![l] = [@ EXCEPT !.i = i + 1]]
             /\ UNCHANGED <<sToPeer, sProgress>>
  /\ UNCHANGED <<baseVars, needVars, iceVars, roleVars, sTotal, sChannel, sToHost, sShares, sPending,
                 sMeta, sReceived, sDownloads>>

\* sendFile after its loop: the transfer is marked as completed
streamSendFileDone(l) ==
  /\ ~sLoops[l].done
  /\ sLoops[l].i = sTotal
  /\ sLoops' = [sLoops EXCEPT ![l] = [@ EXCEPT !.done = TRUE]]
  /\ sProgress' = [status |-> "completed", by |-> l]
  /\ UNCHANGED <<baseVars, needVars, iceVars, roleVars, sTotal, sChannel, sToPeer, sToHost, sShares,
                 sPending, sMeta, sReceived, sDownloads>>

\* assembleAndDownloadFile: the chunks found in the map, by ascending index
RECURSIVE assembleAndDownloadFile(_, _, _)
assembleAndDownloadFile(received, total, i) ==
  IF i >= total THEN <<>>
  ELSE (IF i \in received THEN <<i>> ELSE <<>>)
         \o assembleAndDownloadFile(received, total, i + 1)

\* handleDataChannelMessage at the peer, with handleChunkReceived
streamHandleMessage ==
  /\ sToPeer # <<>>
  /\ sToPeer' = Tail(sToPeer)
  /\ LET message == Head(sToPeer)
     IN IF message.type = "file-metadata"
        THEN /\ sPending' = TRUE
             /\ UNCHANGED <<sReceived, sDownloads>>
        ELSE /\ UNCHANGED sPending
             /\ IF message.isLast /\ sMeta
                THEN /\ sDownloads' = sDownloads \cup
                          {assembleAndDownloadFile(sReceived \cup {message.index}, sTotal, 0)}
                     /\ sReceived' = {}
                ELSE /\ sReceived' = sReceived \cup {message.index}
                     /\ UNCHANGED sDownloads
  /\ UNCHANGED <<baseVars, needVars, iceVars, roleVars, sTotal, sChannel, sToHost, sShares, sMeta,
                 sLoops, sProgress>>

\* the data channel closes; what was in flight is not delivered
streamChannelClose ==
  /\ sChannel = "open"
  /\ sChannel' = "closed"
  /\ sToPeer' = <<>>
  /\ sToHost' = 0
  /\ UNCHANGED <<baseVars, needVars, iceVars, roleVars, sTotal, sShares, sPending, sMeta, sReceived,
                 sLoops, sProgress, sDownloads>>

NextStream ==
  \/ streamShareFile
  \/ streamAcceptFile
  \/ streamSendFile
  \/ \E l \in 1..Len(sLoops) : streamSendChunk(l)
  \/ \E l \in 1..Len(sLoops) : streamSendFileDone(l)
  \/ streamHandleMessage
  \/ streamChannelClose

SpecStream == InitStream /\ [][NextStream]_vars

\* ------------------------------------------- signaling: remote ICE candidates
IcePeers == 1..MaxIcePeers

\* a connection as createConnection leaves it; the candidates of a peer are
\* numbered in the order they arrive
NewConnection ==
  [pc |-> "new",               \* where the handler of the offer or answer is
   remoteDescription |-> FALSE,
   pendingIceCandidates |-> <<>>,
   next |-> 0,                 \* processQueuedIceCandidates: loop position
   added |-> <<>>,             \* the addIceCandidate calls, in order
   arrived |-> 0,              \* history: 'ice' signals handled
   queued |-> {}]              \* history: candidates that were queued

InitIce ==
  /\ BaseIdle /\ NeedIdle /\ StreamIdle /\ RoleIdle
  /\ ice = [p \in IcePeers |-> NewConnection]

\* a loop that gives up the rest of the queue after its first candidate
processQueuedIceCandidatesOnce(conn) ==
  IF conn.next < Len(conn.pendingIceCandidates)
  THEN [conn EXCEPT !.added = Append(@, conn.pendingIceCandidates[conn.next + 1]),
                    !.pendingIceCandidates = <<>>, !.next = 0, !.pc = "done"]
  ELSE [conn EXCEPT !.pendingIceCandidates = <<>>, !.next = 0, !.pc = "done"]

\* processQueuedIceCandidates: one turn of the loop over the queue, which
\* ends by clearing the queue
processQueuedIceCandidates(conn) ==
  IF conn.next < Len(conn.pendingIceCandidates)
  THEN [conn EXCEPT !.added = Append(@, conn.pendingIceCandidates[conn.next + 1]),
                    !.next = @ + 1]
  ELSE [conn EXCEPT !.pendingIceCandidates = <<>>, !.next = 0, !.pc = "done"]

\* handleSignalingMessage, 'offer' or 'answer': setRemoteDescription is called
handleDescription(p) ==
  /\ ice[p].pc = "new"
  /\ ice' = [ice EXCEPT ![p] = [@ EXCEPT !.pc = "setting"]]
  /\ UNCHANGED <<baseVars, needVars, streamVars, roleVars>>

\* setRemoteDescription resolves and the handler goes on into the queue
setRemoteDescription(p) ==
  /\ ice[p].pc = "setting"
  /\ ice' = [ice EXCEPT ![p] =
       processQueuedIceCandidates([@ EXCEPT !.remoteDescription = TRUE, !.pc = "draining"])]
  /\ UNCHANGED <<baseVars, needVars, streamVars, roleVars>>

\* an addIceCandidate call of the queue loop resolves
drainQueue(p) ==
  /\ ice[p].pc = "draining"
  /\ ice' = [ice EXCEPT ![p] = processQueuedIceCandidates(@)]
  /\ UNCHANGED <<baseVars, needVars, streamVars, roleVars>>

\* handleSignalingMessage, 'ice': candidates are signalled after the
\* description they belong to
handleIce(p) ==
  /\ ice[p].pc # "new"
  /\ ice[p].arrived < MaxCandidates
  /\ LET candidate == ice[p].arrived + 1
     IN ice' = [ice EXCEPT ![p] =
          IF @.remoteDescription
          THEN [@ EXCEPT !.added = Append(@, candidate), !.arrived = candidate]
          ELSE [@ EXCEPT !.pendingIceCandidates = Append(@, candidate),
                         !.arrived = candidate,
                         !.queued = @ \cup {candidate}]]
  /\ UNCHANGED <<baseVars, needVars, streamVars, roleVars>>

NextIce ==
  \E p \in IcePeers :
    \/ handleDescription(p)
    \/ setRemoteDescription(p)
    \/ drainQueue(p)
    \/ handleIce(p)

SpecIce == InitIce /\ [][NextIce]_vars

\* ------------------------------------------- client: the host role of a page
\* the signaling server is idle and no page is open
InitRole == InitSignaling

\* the two parts of clientVars a page leaves alone
roleRest == <<recvVars, sendVars, rangeVars, validateVars, chunkingVars, holtVars,
              handshake, needVars, streamVars, iceVars>>

\* useP2PManager mounts in a page of some browser for some room: isHost
\* starts as the stored host status
mount(socketId, browser, roomId) ==
  /\ clients[socketId].pc = "closed"
  /\ socketId \notin connected \cup departed
  /\ clients' = [clients EXCEPT ![socketId] =
       [NoPage EXCEPT !.pc = "mounted", !.browser = browser, !.roomId = roomId,
                      !.isHost = localStorage[browser][roomId]]]
  /\ UNCHANGED <<serverVars, roleRest, localStorage>>

\* the socket of a mounted page connects
pageConnection(socketId) ==
  /\ clients[socketId].pc = "mounted"
  /\ connection(socketId)

\* the 'connect' handler: join the room of the page, preferring the host role
\* if this browser stored it
connect(socketId) ==
  /\ clients[socketId].pc = "mounted"
  /\ join(socketId, clients[socketId].roomId,
          localStorage[clients[socketId].browser][clients[socketId].roomId])

\* the 'joined' handler
joined(socketId) ==
  /\ socketId \in connected
  /\ clients[socketId].handled # requests
  /\ \E e \in emitted :
       /\ e.to = socketId /\ e.event = "joined"
       /\ LET page == clients[socketId]
              stored == localStorage[page.browser][page.roomId]
              finalIsHost == IF stored THEN TRUE ELSE e.flag
          IN /\ clients' = [clients EXCEPT ![socketId] =
                  [@ EXCEPT !.isHost = finalIsHost, !.assigned = e.flag,
                            !.handled = requests]]
             /\ localStorage' = [localStorage EXCEPT ![page.browser][page.roomId] = finalIsHost]
  /\ UNCHANGED <<serverVars, roleRest>>

\* the page is closed or reloaded
pageDisconnect(socketId) ==
  /\ clients[socketId].pc = "mounted"
  /\ disconnect(socketId)

NextRole ==
  \/ \E socketId \in Sockets, browser \in Browsers, roomId \in RoomIds :
       mount(socketId, browser, roomId)
  \/ \E socketId \in Sockets : pageConnection(socketId)
  \/ \E socketId \in Sockets : connect(socketId)
  \/ \E socketId \in Sockets : joined(socketId)
  \/ \E socketId \in Sockets : pageDisconnect(socketId)

SpecRole == InitRole /\ [][NextRole]_vars

\* the channel stays open and the host stays active; the event loop runs the
\* handler of every queued message
NextLive ==
  \/ ReceiveMeta
  \/ acceptFile
  \/ ChunkIgnored
  \/ ChunkHandled
  \/ HostServe

SpecLive ==
  /\ Init
  /\ [][NextLive]_vars
  /\ WF_vars(ChunkHandled)
  /\ WF_vars(ChunkIgnored)
  /\ WF_vars(HostServe)

\* ------------------------------------------------- resume of a kept record
\* a file on which more ranges are missing than one pass requests
ManyRangesChunks == 2 * windowSize + 1
EveryOther(n) == {i \in 0..(n - 1) : i % 2 = 1}

\* the chunk indices a kept record can hold when a paused session resumes
HeldSets(n) ==
  IF n <= MaxChunks THEN SUBSET (0..(n - 1)) \ {0..(n - 1)}
  ELSE {EveryOther(n)}

\* the contents a BITFIELD message of the host can have
Handshakes(n) ==
  IF n <= MaxChunks THEN SUBSET (0..(n - 1))
  ELSE {{}, 0..(n - 1), EveryOther(n)}

\* a paused session whose record and chunks were kept in the store
InitResume ==
  /\ fileTotal \in (1..MaxChunks) \cup {ManyRangesChunks}
  /\ \E held \in HeldSets(fileTotal) :
       /\ record = RecordHolding(fileTotal, held)
       /\ chunks = held
       /\ progress = [exists |-> TRUE, receivedChunks |-> Cardinality(held),
                      status |-> "downloading"]
  /\ isActive = FALSE
  /\ downloadedFile = NoFile
  /\ pendingMetadata = NoMetadata
  /\ hostOpen = TRUE
  /\ toHost = <<>>
  /\ toPeer = <<>>
  /\ hpc = "idle" /\ hidx = 0 /\ hrec = NoRecord /\ vrec = NoRecord
  /\ sentRanges = {}
  /\ events = 0
  /\ bitSetRuns = {}
  /\ resumed = FALSE
  /\ heldAtResume = {}
  /\ reqAfterResume = {}
  /\ SendIdle /\ PureIdle

\* handleHostMessage, case 'BITFIELD': the message is read and dropped
ReceiveBitfield(bits) ==
  /\ hostOpen
  /\ handshake' = bits
  /\ UNCHANGED <<recvVars, sendVars, rangeVars, validateVars, chunkingVars, holtVars,
                 serverVars, extraVars>>

NextResume ==
  \/ \E bits \in Handshakes(fileTotal) : ReceiveBitfield(bits)
  \/ pauseTransfer
  \/ resumeTransfer
  \/ HostDisconnect
  \/ handleHostRejoin
  \/ HostIgnored

SpecResume == InitResume /\ [][NextResume]_vars

\* ------------------------------------------------------------------ claims
PopCount(bitfield) ==
  Cardinality({i \in 0..(8 * Len(bitfield) - 1) : BitTest(bitfield, i)})

AllIndices(rec) == 0..(rec.totalChunks - 1)

\* C1: in every reachable state of the persisted file record, receivedCount
\* equals the number of 1-bits in the bitfield.
C1_CountIsPopCount ==
  record.exists => record.receivedCount = PopCount(record.bitfield)

\* C2: setting a chunk bit is idempotent: setting bit i twice increments
\* receivedCount exactly once (when i was clear before) and leaves bit i set;
\* setting an already-set bit does not increment receivedCount.
C2_SetBitIdempotent ==
  record.exists =>
    \A i \in AllIndices(record) :
      LET once == setBitfieldBit(record, i)
          twice == setBitfieldBit(once, i)
      IN /\ hasBitfieldBit(twice, i)
         /\ twice.receivedCount = once.receivedCount
         /\ ~hasBitfieldBit(record, i) => once.receivedCount = record.receivedCount + 1

\* C3: the session status is 'completed' exactly when every chunk index
\* 0..totalChunks-1 has been received.
C3_CompletedIffAllReceived ==
  progress.exists =>
    ((progress.status = "completed") <=> (Held(record) = AllIndices(record)))

\* C4: whenever assembleFile returned a file, a chunk was stored for every
\* index 0..totalChunks-1 and the file is those chunks in index order.
C4_AssembledFileComplete ==
  downloadedFile # NoFile => downloadedFile = [k \in 1..fileTotal |-> k - 1]

\* ranges sent in a REQUEST that still contain a chunk not yet received
Outstanding ==
  {r \in sentRanges : \E k \in r.start..r.end : ~hasBitfieldBit(record, k)}

\* C6: no two outstanding REQUESTs of one session contain the same chunk
\* index.
C6_NoChunkRequestedTwice ==
  \A r1 \in Outstanding : \A r2 \in Outstanding :
    r1 # r2 =>
      ~\E k \in (r1.start..r1.end) \cap (r2.start..r2.end) : ~hasBitfieldBit(record, k)

\* C7: the number of requested ranges that are not yet fully satisfied never
\* exceeds windowSize.
C7_WindowBound == Cardinality(Outstanding) <= windowSize

\* C9: once all running chunk handlers have finished, the bitfield has a 1
\* for every index whose handler ran, and receivedCount counts each of them.
C9_NoLostUpdate ==
  hpc = "idle" =>
    /\ \A i \in bitSetRuns : hasBitfieldBit(record, i)
    /\ record.receivedCount >= Cardinality(bitSetRuns)

\* C5: after a resume, no chunk index that was held at the resume is covered
\* by a REQUEST or NEED, and the indices covered are exactly the others.
C5_ResumeRequestsOnlyMissing ==
  resumed => reqAfterResume \cap heldAtResume = {}

\* C8: the sender never calls send on the data channel while the channel's
\* buffered byte count is above the high-water mark (MAX_BUFFER_SIZE).
C8_NoSendAboveHighWater ==
  [][bufferedAmount' > bufferedAmount => bufferedAmount <= MAX_BUFFER_SIZE]_vars

\* the indices of rRecord whose bit is 0
MissingOf(rec) == {i \in AllIndices(rec) : ~BitTest(rec.bitfield, i)}
RangeLen(r) == r.end - r.start + 1

\* ranges are ascending, pairwise disjoint runs of missing indices whose
\* union is the missing set, each maximal unless cut by the size cap
\* (cap = 0: no cap)
RangesCorrect(ranges, missing, cap) ==
  /\ \A k \in 1..Len(ranges) : ranges[k].start <= ranges[k].end
  /\ \A k \in 1..(Len(ranges) - 1) : ranges[k].end < ranges[k + 1].start
  /\ Covered(ranges) = missing
  /\ \A k \in 1..Len(ranges) :
       /\ cap > 0 => RangeLen(ranges[k]) <= cap
       /\ (ranges[k].end + 1) \in missing => cap > 0 /\ RangeLen(ranges[k]) = cap
       /\ (ranges[k].start - 1) \in missing =>
            /\ cap > 0 /\ k > 1
            /\ ranges[k - 1].end = ranges[k].start - 1
            /\ RangeLen(ranges[k - 1]) = cap

\* C10: the missing-range computations return ascending, pairwise disjoint,
\* maximal runs of missing indices (cut only by the size cap) whose union is
\* exactly the set of indices whose bit is 0; holding {0,2} of 4 chunks gives
\* [{1,1},{3,3}].
C10_RangeCorrectness ==
  /\ rMissing # NotComputed => RangesCorrect(rMissing, MissingOf(rRecord), 0)
  /\ rRequest # NotComputed => RangesCorrect(rRequest, MissingOf(rRecord), rMaxSize)
  /\ (rMissing # NotComputed /\ rRecord = RecordHolding(4, {0, 2})) =>
       rMissing = <<[start |-> 1, end |-> 1], [start |-> 3, end |-> 3]>>

\* both computations have run on the record that holds {0,2} of 4 chunks
C10_Witness ==
  /\ rRecord = RecordHolding(4, {0, 2})
  /\ rMissing = <<[start |-> 1, end |-> 1], [start |-> 3, end |-> 3]>>
  /\ rRequest = <<[start |-> 1, end |-> 1], [start |-> 3, end |-> 3]>>

\* C11: no range the receiver sends in a REQUEST or a NEED covers more than
\* maxRangeSize (64) chunk indices.
C11_RangeLengthBound ==
  /\ \A r \in sentRanges : RangeLen(r) <= DEFAULT_MAX_RANGE_SIZE
  /\ \A k \in 1..Len(toHost) : \A j \in 1..Len(toHost[k].ranges) :
       RangeLen(toHost[k].ranges[j]) <= DEFAULT_MAX_RANGE_SIZE

\* the indices named by the ranges of a message
IndicesOf(msg) == Covered(msg.ranges)

\* C12: when the host handles a REQUEST or NEED that names an index outside
\* [0,totalChunks), it answers with an ERROR message to the peer.
C12_StrayRequestAnsweredWithError ==
  [][(/\ toHost # <<>> /\ hostOpen /\ hostOpen'
      /\ toHost' = Tail(toHost)
      /\ ~(IndicesOf(Head(toHost)) \subseteq 0..(fileTotal - 1)))
     => /\ Len(toPeer') > Len(toPeer)
        /\ \E k \in (Len(toPeer) + 1)..Len(toPeer') : toPeer'[k] = ErrorMessage]_vars

\* C13: handling a CHUNK whose index is outside [0,totalChunks) leaves the
\* stored chunks, the bitfield (and its length) and receivedCount unchanged.
C13_StrayChunkRejected ==
  [][(/\ toPeer # <<>>
      /\ toPeer' = Tail(toPeer)
      /\ Head(toPeer) \notin 0..(fileTotal - 1))
     => (record' = record /\ chunks' = chunks)]_vars

\* a requested range is waiting for chunks, the channel is open, and no
\* REQUEST or CHUNK is in flight
Stalled ==
  /\ isActive /\ hostOpen
  /\ Outstanding # {}
  /\ toHost = <<>> /\ toPeer = <<>>

\* C17: a requested range that stays unanswered while the channel is open is
\* eventually requested again (or received).
C17_StallRecovery == Stalled ~> ~Stalled

\* C16: a pause of the receiver (isActive turns false with no message
\* handled) or a close of the transport to the host leaves the persisted
\* bitfield and receivedCount exactly as they were.
C16_PausePreservesProgress ==
  [][((isActive /\ ~isActive' /\ toPeer' = toPeer) \/ (hostOpen /\ ~hostOpen'))
     => (record'.bitfield = record.bitfield
         /\ record'.receivedCount = record.receivedCount)]_vars

\* the receiver was paused and the host disconnected with chunks received
\* and the transfer unfinished
C16_Witness ==
  /\ ~isActive /\ ~hostOpen
  /\ progress.exists /\ progress.status = "downloading"
  /\ record.receivedCount > 0

\* C14: validateResumeSession returns true only if the session's size,
\* chunkSize and totalChunks all equal those of the persisted record.
C14_ValidationRefusesMismatch ==
  vResult = "true" =>
    /\ session.metadata.size = recordMeta.size
    /\ session.metadata.chunkSize = recordMeta.chunkSize
    /\ session.metadata.totalChunks = record.totalChunks

\* C15: whenever validateResumeSession has returned true, the persisted
\* receivedCount equals the number of set bits of the bitfield over indices
\* 0..totalChunks-1, and the bitfield is the one found before validation.
C15_ValidationRepairsCount ==
  vResult = "true" =>
    /\ record.receivedCount = Cardinality(Held(record))
    /\ record.bitfield = vBefore.bitfield

\* validation returned true for a record whose count was wrong
C15_Witness ==
  /\ vResult = "true"
  /\ vBefore.receivedCount # Cardinality(Held(vBefore))
  /\ Held(record) # {}

RECURSIVE SumSizes(_)
SumSizes(infos) ==
  IF infos = <<>> THEN 0 ELSE Head(infos).size + SumSizes(Tail(infos))

\* C18: for size > 0 and chunkSize > 0, totalChunks is ceil(size/chunkSize);
\* chunk k has offset k*chunkSize and length min(chunkSize, size-offset),
\* between 1 and chunkSize; only the last chunk may be shorter than chunkSize
\* and the lengths of all chunks sum to size.
C18_ChunkBoundsPartition ==
  (metadata.exists /\ metadata.size > 0) =>
    /\ (metadata.totalChunks - 1) * metadata.chunkSize < metadata.size
    /\ metadata.totalChunks * metadata.chunkSize >= metadata.size
    /\ \A k \in 1..Len(chunkInfos) :
         /\ chunkInfos[k].index = k - 1
         /\ chunkInfos[k].offset = (k - 1) * metadata.chunkSize
         /\ chunkInfos[k].size >= 1
         /\ chunkInfos[k].size <= metadata.chunkSize
         /\ chunkInfos[k].offset + chunkInfos[k].size <= metadata.size
         /\ chunkInfos[k].size < metadata.chunkSize => k = metadata.totalChunks
    /\ Len(chunkInfos) = metadata.totalChunks => SumSizes(chunkInfos) = metadata.size

\* every chunk of a file of several chunks was read and the last is short
C18_Witness ==
  /\ metadata.exists
  /\ metadata.totalChunks >= 3
  /\ Len(chunkInfos) = metadata.totalChunks
  /\ chunkInfos[Len(chunkInfos)].size < metadata.chunkSize

\* C19: the chunkSize of announced metadata is the one the selection policy
\* gives for the file size: 16 KiB below 1 MiB, 32 KiB below 100 MiB, 64 KiB
\* otherwise.
C19_AnnouncedChunkSizeFollowsPolicy ==
  metadata.announced => metadata.chunkSize = calculateOptimalChunkSize(metadata.size)

\* C20: from a new or reset predictor, isStable() is false after 0, 1 and 2
\* updates and true after the 3rd, whatever the values.
C20_StableAfterThirdUpdate ==
  /\ holtUpdates < 3 => ~isStable
  /\ holtUpdates >= 3 => isStable

\* exactly three updates have been made and the predictor is stable
C20_Witness == holtUpdates = 3 /\ isStable /\ Len(residuals) = 2

\* C21: while every value given to update() since construction or reset() is
\* the same non-negative v, level = v, trend = 0 and forecast(1) = v after
\* every update; in particular forecast(1) = 1000 after [1000, 1000, 1000].
C21_ConstantInputKeepsLevel ==
  /\ \A v \in Observations :
       holtInputs = {v} =>
         /\ holt.level = v
         /\ holt.trend = 0
         /\ forecast(1) = v
  /\ (holtInputs = {SteadySample * HoltUnit} /\ holtUpdates = 3) =>
       forecast(1) = SteadySample * HoltUnit

\* the samples [1000, 1000, 1000] have been given to a new predictor
C21_Witness ==
  /\ holtInputs = {SteadySample * HoltUnit}
  /\ holtUpdates = 3
  /\ holt.updateCount = 3
  /\ Len(residuals) = 2

\* the sockets of a room's peer set
Members(roomId) == PeerSet(rooms[roomId])

\* C22: every existing room has a host that is one of its current members, a
\* socket in the room's peer set whose connection is open (the first to join,
\* or the member the role went to when the host left or disconnected).
C22_HostIsCurrentMember ==
  \A roomId \in DOMAIN rooms :
    /\ rooms[roomId].host \in Members(roomId)
    /\ rooms[roomId].host \in connected

\* C23: when the host of a room disconnects while other peers remain, every
\* remaining peer is sent host-status with isOnline = false.
C23_HostOfflineNotified ==
  [][\A socketId \in Sockets :
       (/\ socketId \in connected
        /\ socketId \notin connected'
        /\ peerToRoom[socketId] \in DOMAIN rooms
        /\ rooms[peerToRoom[socketId]].host = socketId)
       => \A p \in (Members(peerToRoom[socketId]) \cap connected) \ {socketId} :
            Emit(p, "host-status", socketId, FALSE, NoFileId) \in emitted']_vars

\* C24: after every join, leave, host-reconnect and disconnect the rooms map
\* holds no room whose peer set is empty.
C24_NoEmptyRoom ==
  \A roomId \in DOMAIN rooms : Len(rooms[roomId].peers) > 0

\* a socket joined a room, and the room went from the map when its last peer
\* left under another room's name
C24_Witness ==
  /\ DOMAIN rooms = {}
  /\ \E roomId \in RoomIds : adapter[roomId] # {}

\* the record, the stored chunks and the REQUESTs sent stay as they are
NoBitfieldWork ==
  /\ record' = record
  /\ chunks' = chunks
  /\ toHost' = toHost
  /\ sentRanges' = sentRanges

C26_StaleChunkAcceptedWhilePaused ==
  [][(/\ toPeer # <<>>
      /\ toPeer' = Tail(toPeer)
      /\ hostOpen' = hostOpen
      /\ progress.exists
      /\ progress.status = "downloading"
      /\ ~isActive
      /\ record.exists
      /\ Head(toPeer) \in 0..(record.totalChunks - 1)
      /\ Head(toPeer) \notin Held(record))
     => /\ Head(toPeer) \in chunks'
        /\ Head(toPeer) \in Held(record')
        /\ record'.receivedCount = record.receivedCount + 1]_vars

\* the ranges of the messages a step adds to the channel to the host
NewRanges ==
  LET added == SubSeq(toHost', Len(toHost) + 1, Len(toHost'))
  IN IF Len(added) = 1 /\ added[1].type = "NEED" THEN added[1].ranges
     ELSE [k \in 1..Len(added) |-> added[k].ranges[1]]

\* a step of resumeTransfer, and one of handleHostRejoin on a kept record
ResumeStep == ~isActive /\ isActive' /\ progress.exists /\ record.exists
RejoinStep == ~hostOpen /\ hostOpen' /\ record.exists

\* C27 as claimed: the ranges sent on resume, in REQUESTs or in a NEED, are
\* the missing ranges of the receiver's own persisted bitfield, whatever the
\* host's BITFIELD message said.
C27_ResumeRangesAreOwnMissingRanges ==
  [][/\ (ResumeStep /\ hostOpen) => NewRanges = getMissingRanges(record)
     /\ RejoinStep => NewRanges = getMissingRanges(record)]_vars

\* C27 amended: whatever the host's BITFIELD message said, the NEED sent on
\* rejoin carries all the missing ranges of the receiver's own persisted
\* bitfield, and the REQUESTs sent by resumeTransfer are the first 10 of them.
C27_ResumeRangesFromOwnBitfield ==
  [][/\ (ResumeStep /\ hostOpen) =>
          LET own == getMissingRanges(record)
          IN NewRanges = SubSeq(own, 1, Min(windowSize, Len(own)))
     /\ RejoinStep => NewRanges = getMissingRanges(record)]_vars

\* a NEED was sent on rejoin after the host's BITFIELD message had claimed
\* other chunks than the receiver holds
C27_Witness ==
  /\ resumed
  /\ hostOpen
  /\ handshake # NoHandshake
  /\ handshake # heldAtResume
  /\ toHost # <<>>
  /\ toHost[Len(toHost)].type = "NEED"
  /\ Covered(toHost[Len(toHost)].ranges) = (0..(fileTotal - 1)) \ heldAtResume

\* the messages a step adds to a channel
Added(before, after) == SubSeq(after, Len(before) + 1, Len(after))

\* the ranges named by a sequence of REQUEST and NEED messages, in order
RECURSIVE RangesOf(_)
RangesOf(msgs) ==
  IF msgs = <<>> THEN <<>> ELSE Head(msgs).ranges \o RangesOf(Tail(msgs))

\* the chunk indices start..end are at positions from + 1 .. of out, ascending
AscendingAt(out, from, r) ==
  /\ from + (r.end - r.start + 1) <= Len(out)
  /\ \A k \in 1..(r.end - r.start + 1) : out[from + k] = r.start + k - 1

C29_TransferLiveness ==
  (progress.exists /\ isActive /\ record.exists)
    ~> (/\ progress.status = "completed"
        /\ record.exists
        /\ Held(record) = AllIndices(record))

\* C30: once a file of zero chunks is accepted, receivedCount = totalChunks
\* and the session is 'completed' with an empty assembled file, with no CHUNK
\* awaited.
C30_ZeroByteFileCompletes ==
  (progress.exists /\ record.exists /\ record.totalChunks = 0) =>
    /\ record.receivedCount = record.totalChunks
    /\ progress.status = "completed"
    /\ downloadedFile = <<>>

\* C31: once the send of a chunk has failed while a NEED is served, no
\* further chunk is sent for that NEED, of the same range or of a later one.
C31_StopsOnFirstSendError ==
  [][needFailed => needSent' = needSent]_vars

\* C32: no event hands the host role of a room from a socket that is still a
\* member of the room (in its peer set, with its connection open) to another
\* socket.
C32_NoTakeoverFromPresentHost ==
  [][\A roomId \in DOMAIN rooms \cap DOMAIN rooms' :
       rooms'[roomId].host # rooms[roomId].host
         => ~(/\ rooms[roomId].host \in PeerSet(rooms'[roomId])
              /\ rooms[roomId].host \in connected')]_vars

\* the rooms a socket is in before and after a step, by peerToRoom
RoomsOf(socketId) == {peerToRoom[socketId], peerToRoom'[socketId]} \ {NoRoom}

\* C33: every message a handler delivers to another socket (a relayed signal
\* included) goes to a member of a room the sender is in or has just left,
\* and a handler changes the host, peer set and fileId of no other room.
C33_RoomsIndependent ==
  [][/\ \A e \in emitted' :
          e.to # e.from => peerToRoom'[e.to] \in RoomsOf(e.from)
     /\ \E socketId \in Sockets :
          \A roomId \in DOMAIN rooms \cup DOMAIN rooms' :
            roomId \notin RoomsOf(socketId) =>
              /\ roomId \in DOMAIN rooms \cap DOMAIN rooms'
              /\ rooms'[roomId] = rooms[roomId]]_vars

\* C36: socket s is in the peer set of room r exactly when peerToRoom maps s
\* to r.
C36_MembershipConsistent ==
  \A socketId \in Sockets, roomId \in RoomIds :
    (roomId \in DOMAIN rooms /\ socketId \in PeerSet(rooms[roomId]))
      <=> peerToRoom[socketId] = roomId

\* C37: when a step takes a socket out of the peer set of a room that stays
\* in the map, every remaining member with an open connection is sent
\* peer-left for that socket.
C37_PeerLeftSent ==
  [][\A socketId \in Sockets, roomId \in DOMAIN rooms \cap DOMAIN rooms' :
       (socketId \in PeerSet(rooms[roomId]) /\ socketId \notin PeerSet(rooms'[roomId]))
         => \A p \in PeerSet(rooms'[roomId]) \cap connected' :
              Emit(p, "peer-left", socketId, FALSE, NoFileId) \in emitted']_vars

\* the whole file, chunk by chunk
WholeFile == [k \in 1..sTotal |-> k - 1]

\* every assembled file is the whole file
DownloadsMatch == \A file \in sDownloads : file = WholeFile

\* a 'completed' progress entry was written by a sendFile call that has sent
\* every chunk
CompletedMeansSent ==
  sProgress.status = "completed" => sLoops[sProgress.by].sent = 0..(sTotal - 1)

\* C34: in the direct path every assembled file holds every chunk index
\* 0..totalChunks-1 once and in order, and the host's progress entry is
\* 'completed' only when the sendFile call that wrote it has sent every chunk
C34_StreamedFileMatchesOriginal == DownloadsMatch /\ CompletedMeansSent

\* how often candidate c has been given to addIceCandidate
TimesAdded(conn, c) == Cardinality({k \in 1..Len(conn.added) : conn.added[k] = c})

\* candidate c is in the queue and the loop has not reached it
StillQueued(conn, c) ==
  \E k \in (conn.next + 1)..Len(conn.pendingIceCandidates) :
    conn.pendingIceCandidates[k] = c

\* C35: no candidate is added before the remote description is set; every
\* candidate that has arrived is either still queued or has been added once;
\* the queued candidates are added in the order they arrived; and when the
\* queue has been drained every candidate has been added
C35_IceCandidatesQueuedThenAdded ==
  \A p \in DOMAIN ice :
    LET conn == ice[p]
    IN /\ conn.added # <<>> => conn.remoteDescription
       /\ \A c \in 1..conn.arrived :
            TimesAdded(conn, c) + (IF StillQueued(conn, c) THEN 1 ELSE 0) = 1
       /\ \A j, k \in 1..Len(conn.added) :
            (j < k /\ conn.added[j] \in conn.queued /\ conn.added[k] \in conn.queued)
              => conn.added[j] < conn.added[k]
       /\ conn.pc = "done" => \A c \in 1..conn.arrived : TimesAdded(conn, c) = 1

\* two candidates were queued, a third arrived while the queue was being
\* drained, and the queue has been drained
C35_Witness ==
  \E p \in DOMAIN ice :
    /\ ice[p].pc = "done"
    /\ Cardinality(ice[p].queued) >= 2
    /\ \E k \in 1..(Len(ice[p].added) - 1) :
         /\ ice[p].added[k] \notin ice[p].queued
         /\ ice[p].added[k + 1] \in ice[p].queued

\* the pages in a room that have handled 'joined' and take themselves for the host
SelfHosts(roomId) ==
  {s \in Members(roomId) \cap connected : clients[s].handled > 0 /\ clients[s].isHost}

\* C38: a page that has handled 'joined' has the isHost value the server sent
\* it, and at most one page in a room takes itself for the host
C38_ClientAgreesWithServer ==
  /\ \A s \in connected : clients[s].handled > 0 => clients[s].isHost = clients[s].assigned
  /\ \A roomId \in DOMAIN rooms : Cardinality(SelfHosts(roomId)) <= 1

\* the chunk indices asked for by the messages a step puts on the way to the host
AskedFor ==
  UNION {r.start..r.end : r \in RequestedRanges(Added(toHost, toHost'))}

\* C39: when acceptFile runs while a record with held chunks exists, every
\* held chunk is still recorded afterwards (in the bitfield and in
\* receivedCount) and none of them is requested again
C39_AcceptKeepsPersistedProgress ==
  [][(acceptFile /\ record.exists /\ Held(record) # {}) =>
       /\ Held(record) \subseteq Held(record')
       /\ record'.receivedCount >= Cardinality(Held(record))
       /\ AskedFor \cap Held(record) = {}]_vars

\* C40: a sendMessage call that waits for the buffer to drain eventually
\* sends its message or fails, and its continuation calls send only on an
\* open channel
C40_BlockedSendTerminates ==
  /\ \A s \in Senders : (spc[s] = "waiting") ~> (spc[s] \in {"idle", "failed"})
  /\ [][\A s \in Senders :
          (spc[s] = "resolved" /\ spc'[s] = "idle") => channelState = "open"]_vars

====
